---- MODULE Spec2Model ----
(***************************************************************************)
(* nestjs-aws-systems-manager: the Parameter Store fetcher, the Secrets    *)
(* Manager fetcher and the SystemsManagerService facade.                   *)
(*                                                                         *)
(* Strings are sequences of one-character strings, so that trim(),         *)
(* startsWith(), split() and replace() are computed as the code computes   *)
(* them.  JavaScript's undefined/null is the value Undefined.              *)
(***************************************************************************)
EXTENDS Integers, Sequences, FiniteSets, TLC

VARIABLES
    pPc,        \* fetchParameters: "idle", "awaiting", "returned", "thrown"
    pArgs,      \* fetchParameters: its arguments (awsRegion, awsParamStorePath, continueOnError)
    parameters, \* fetchParameters: the accumulator `parameters`
    pReqs,      \* the GetParametersByPath requests sent so far, in order
    pResps,     \* the answers of the store so far, in order
    pOut,       \* fetchParameters: the returned list or the thrown error
    sPc,        \* fetchSecrets: "idle", "awaiting", "returned", "thrown"
    sArgs,      \* fetchSecrets: its arguments (awsRegion, secretNames, continueOnError)
    sReqs,      \* the GetSecretValue requests sent so far, in order (SecretId of each)
    sAnswers,   \* per index of secretNames: "pending" or the answer of the store to its request
    sResults,   \* per index of secretNames: "pending" or the value its promise resolved with
    sSettled,   \* the indexes of secretNames in the order in which their requests settled
    sOut,       \* fetchSecrets: the returned map or the thrown error
    config,     \* the facade's ModuleOptions
    _parameters,\* the facade's parameter map
    _secrets,   \* the facade's secret map
    secretKeys, \* the keys of the facade's secret map in property order
    tasks,      \* the facade's refresh calls in progress
    loaded,     \* the arguments of the latest loadParameters and loadSecrets calls
    before,     \* per followed refresh call: the two maps as they were when it was made
    handed,     \* the object a getAll* call handed to its caller, as the caller left it
    providers,  \* module start-up: the registration and the outcomes of the two async providers
    history     \* the refresh calls made and the loads they did, in order, when followed

pVars == <<pPc, pArgs, parameters, pReqs, pResps, pOut>>
sVars == <<sPc, sArgs, sReqs, sAnswers, sResults, sSettled, sOut>>
fVars == <<config, _parameters, _secrets, secretKeys, tasks, loaded, before, handed, providers, history>>
vars == <<pPc, pArgs, parameters, pReqs, pResps, pOut,
          sPc, sArgs, sReqs, sAnswers, sResults, sSettled, sOut,
          config, _parameters, _secrets, secretKeys, tasks, loaded, before, handed,
          providers, history>>

-----------------------------------------------------------------------------
(* Bounds of the model *)

\* The store answers at most this many pages with a continuation token.
MaxPages == 3

-----------------------------------------------------------------------------
(* JavaScript values *)

\* undefined / null: no string equals it (the elements of a string are single characters)
Undefined == <<"undefined">>

Range(f) == {f[i] : i \in DOMAIN f}

\* !value for a string-or-undefined value
Falsy(s) == s = Undefined \/ s = <<>>

\* The characters String.prototype.trim removes: the WhiteSpace and LineTerminator
\* code points of ECMAScript. A character that has no escape here is written as
\* the name of its code point.
WhiteSpace ==
    {" ", "\t", "\n", "\r", "\f", "U+000B", "U+00A0", "U+FEFF", "U+1680",
     "U+2000", "U+2001", "U+2002", "U+2003", "U+2004", "U+2005", "U+2006",
     "U+2007", "U+2008", "U+2009", "U+200A", "U+2028", "U+2029", "U+202F",
     "U+205F", "U+3000"}

RECURSIVE TrimStart(_)
TrimStart(s) ==
    IF s # <<>> /\ Head(s) \in WhiteSpace THEN TrimStart(Tail(s)) ELSE s

RECURSIVE TrimEnd(_)
TrimEnd(s) ==
    IF s # <<>> /\ s[Len(s)] \in WhiteSpace THEN TrimEnd(SubSeq(s, 1, Len(s) - 1)) ELSE s

\* String.prototype.trim
Trim(s) == TrimEnd(TrimStart(s))

\* String.prototype.startsWith
StartsWith(s, p) == Len(p) <= Len(s) /\ SubSeq(s, 1, Len(p)) = p

\* The concatenation of a sequence of sequences, in order
RECURSIVE Flatten(_)
Flatten(ss) == IF ss = <<>> THEN <<>> ELSE Head(ss) \o Flatten(Tail(ss))

-----------------------------------------------------------------------------
(* ParamStoreUtil *)

NoError == [name |-> "none"]

MkError(name, code, message) == [name |-> name, code |-> code, message |-> message]

\* The messages that contain the text 'Missing credentials'
MissingCredentialsMessages == {"Missing credentials in config"}

\* Variant of ValidateParameters: the path is trimmed before the test for '/'
ValidateParametersTrimmedPath(awsRegion, awsParamStorePath) ==
    IF Falsy(awsRegion) \/ Trim(awsRegion) = <<>>
    THEN MkError("Error", "", "AWS region is required")
    ELSE IF Falsy(awsParamStorePath) \/ Trim(awsParamStorePath) = <<>>
    THEN MkError("Error", "", "Parameter Store path is required")
    ELSE IF ~StartsWith(Trim(awsParamStorePath), <<"/">>)
    THEN MkError("Error", "", "Parameter Store path must start with '/'")
    ELSE NoError

\* validateParameters: NoError, or the Error it throws
ValidateParameters(awsRegion, awsParamStorePath) ==
    IF Falsy(awsRegion) \/ Trim(awsRegion) = <<>>
    THEN MkError("Error", "", "AWS region is required")
    ELSE IF Falsy(awsParamStorePath) \/ Trim(awsParamStorePath) = <<>>
    THEN MkError("Error", "", "Parameter Store path is required")
    ELSE IF ~StartsWith(awsParamStorePath, <<"/">>)
    THEN MkError("Error", "", "Parameter Store path must start with '/'")
    ELSE NoError

\* buildErrorMessage: the base message with region and path, the class of the
\* error and the text of the underlying error
BuildErrorMessage(error, awsRegion, awsParamStorePath) ==
    LET base == [text |-> "Failed to fetch parameters from AWS SSM Parameter Store",
                 region |-> awsRegion, path |-> awsParamStorePath]
        class ==
            IF error.name = "AccessDeniedException" THEN "Access Denied"
            ELSE IF error.name = "ParameterNotFound" THEN "Parameter not found"
            ELSE IF error.name = "InvalidParameterException" THEN "Invalid parameter"
            ELSE IF error.name = "ThrottlingException" THEN "Request throttled"
            ELSE IF error.code \in {"ENOTFOUND", "ETIMEDOUT"} THEN "Network error"
            ELSE IF error.message \in MissingCredentialsMessages THEN "Missing AWS credentials"
            ELSE "generic"
    IN  [base |-> base, class |-> class,
         error |-> IF class = "generic" /\ error.message = ""
                   THEN "Unknown error occurred" ELSE error.message]

\* buildSecretsManagerErrorMessage
BuildSecretsManagerErrorMessage(error, awsRegion, secretName) ==
    LET base == [text |-> "Failed to fetch secret from AWS Secrets Manager",
                 secretName |-> secretName, region |-> awsRegion]
        class ==
            IF error.name = "ResourceNotFoundException" THEN "Secret not found"
            ELSE IF error.name = "AccessDeniedException" THEN "Access Denied"
            ELSE IF error.name = "InvalidParameterException" THEN "Invalid parameter"
            ELSE IF error.name = "InvalidRequestException" THEN "Invalid request"
            ELSE IF error.name = "DecryptionFailure" THEN "Decryption failed"
            ELSE IF error.code \in {"ENOTFOUND", "ETIMEDOUT"} THEN "Network error"
            ELSE IF error.message \in MissingCredentialsMessages THEN "Missing AWS credentials"
            ELSE "generic"
    IN  [base |-> base, class |-> class,
         error |-> IF class = "generic"
                   THEN (IF error.message = "" THEN "Unknown error occurred" ELSE error.message)
                   ELSE IF class = "Network error" THEN error.code
                   ELSE ""]

-----------------------------------------------------------------------------
(* Inputs: regions, paths, Parameter objects, store answers *)

RegionA == <<"u", "s">>
Regions == {Undefined, <<>>, <<" ">>, RegionA}

BasePath == <<"/", "a">>
Paths == {Undefined, <<>>, <<" ", "\t">>, <<"a">>, <<" ", "/", "a">>, BasePath}

\* Parameter objects of the store: Name and Value are strings or undefined
MkParameter(name, value) == [Name |-> name, Value |-> value]
ParamX == MkParameter(<<"/", "a", "/", "x">>, <<"1">>)
ParamY == MkParameter(<<"/", "a", "/", "b", "/", "y">>, <<"2">>)

\* The Parameters field of one page
PageLists == {<<>>, <<ParamX>>, <<ParamX, ParamY>>, <<ParamY, ParamX>>}

TokenA == <<"t", "1">>
TokenB == <<"t", "2">>
\* The NextToken field of one page: absent, the empty string, or a token
NextTokens == {Undefined, <<>>, TokenA, TokenB}

\* What the SDK rejects with: named service errors, network errors, a plain Error,
\* a non-Error value (no name, no message)
SsmErrors == {
    MkError("AccessDeniedException", "", "denied"),
    MkError("Error", "ETIMEDOUT", "timeout"),
    MkError("Error", "", "Missing credentials in config"),
    MkError("", "", "") }

ClientInitError == MkError("Error", "", "Client initialization failed")

\* The answers of the store to one GetParametersByPath request: a page (with or
\* without a Parameters field), a rejection, or no result object at all
SsmAnswers ==
    {[kind |-> "page", Parameters |-> l, NextToken |-> t] : l \in PageLists, t \in NextTokens}
    \cup {[kind |-> "page", NextToken |-> t] : t \in NextTokens}
    \cup {[kind |-> "error", error |-> e] : e \in SsmErrors}
    \cup {[kind |-> "undefined"]}

\* The answer carries a continuation token the fetcher follows
HasToken(answer) == answer.kind = "page" /\ ~Falsy(answer.NextToken)

-----------------------------------------------------------------------------
(* ParameterStoreFetcherService.fetchParameters *)

\* Variant of CommandInput: the input as built for the first page, for every page
CommandInputFirstPage(awsParamStorePath, nextToken) ==
    [Path |-> awsParamStorePath, Recursive |-> TRUE, WithDecryption |-> TRUE,
     NextToken |-> Undefined]

\* The GetParametersByPathCommand input: NextToken is set only when truthy
CommandInput(awsParamStorePath, nextToken) ==
    [Path |-> awsParamStorePath, Recursive |-> TRUE, WithDecryption |-> TRUE,
     NextToken |-> IF Falsy(nextToken) THEN Undefined ELSE nextToken]

\* result?.Parameters || []
FetchedParameters(result) ==
    IF "Parameters" \in DOMAIN result THEN result.Parameters ELSE <<>>

\* Variant of PushAll: the page replaces the accumulator (parameters = fetchedParameters)
PushAllOverwrites(acc, fetchedParameters) == fetchedParameters

\* parameters.push(...fetchedParameters)
PushAll(acc, fetchedParameters) == acc \o fetchedParameters

\* Variant of AreMoreParametersToFetch: a cap of two pages
\* (areMoreParametersToFetch = !!nextToken && pageCount < 2)
AreMoreParametersToFetchCapped(nextToken) == ~Falsy(nextToken) /\ Len(pReqs) < 2

\* areMoreParametersToFetch = !!nextToken
AreMoreParametersToFetch(nextToken) == ~Falsy(nextToken)

\* Variant of FetchParametersCatch: under continueOnError the catch block returns
\* the accumulator (return parameters)
FetchParametersCatchPartial(error, awsRegion, awsParamStorePath, continueOnError, acc) ==
    IF continueOnError
    THEN [pc |-> "returned", value |-> acc]
    ELSE [pc |-> "thrown",
          error |-> BuildErrorMessage(error, awsRegion, awsParamStorePath)]

\* The catch block: the empty list under continueOnError, else the enhanced error
FetchParametersCatch(error, awsRegion, awsParamStorePath, continueOnError, acc) ==
    IF continueOnError
    THEN [pc |-> "returned", value |-> <<>>]
    ELSE [pc |-> "thrown",
          error |-> BuildErrorMessage(error, awsRegion, awsParamStorePath)]

\* The error the try block throws before any request, or NoError: validation
\* first, then the construction of the client
ErrorBeforeRequest(awsRegion, awsParamStorePath, clientError) ==
    LET v == ValidateParameters(awsRegion, awsParamStorePath)
    IN  IF v # NoError THEN v ELSE clientError

\* The call, up to its first await
FetchParametersCall(awsRegion, awsParamStorePath, continueOnError, clientError) ==
    /\ pPc = "idle" /\ sPc = "idle"
    /\ pArgs' = [awsRegion |-> awsRegion, awsParamStorePath |-> awsParamStorePath,
                 continueOnError |-> continueOnError]
    /\ parameters' = <<>>
    /\ pResps' = pResps
    /\ LET e == ErrorBeforeRequest(awsRegion, awsParamStorePath, clientError)
       IN  IF e # NoError
           THEN LET c == FetchParametersCatch(e, awsRegion, awsParamStorePath,
                                              continueOnError, <<>>)
                IN  /\ pPc' = c.pc
                    /\ pOut' = c
                    /\ pReqs' = pReqs
           ELSE /\ pPc' = "awaiting"
                /\ pOut' = pOut
                /\ pReqs' = Append(pReqs, CommandInput(awsParamStorePath, Undefined))
    /\ UNCHANGED <<sVars, fVars>>

\* The store answers the request in flight and the loop body continues after
\* `await ssmClient.send(...)`, up to the next await, the return or the throw
FetchParametersResume(answer) ==
    /\ pPc = "awaiting"
    /\ HasToken(answer) => Len(pReqs) < MaxPages
    /\ pResps' = Append(pResps, answer)
    /\ pArgs' = pArgs
    /\ IF answer.kind = "page"
       THEN LET acc == PushAll(parameters, FetchedParameters(answer))
                nextToken == answer.NextToken
            IN  /\ parameters' = acc
                /\ IF AreMoreParametersToFetch(nextToken)
                   THEN /\ pReqs' = Append(pReqs, CommandInput(pArgs.awsParamStorePath, nextToken))
                        /\ pPc' = "awaiting"
                        /\ pOut' = pOut
                   ELSE /\ pReqs' = pReqs
                        /\ pPc' = "returned"
                        /\ pOut' = [pc |-> "returned", value |-> acc]
       ELSE LET error == IF answer.kind = "error" THEN answer.error
                         ELSE MkError("TypeError", "", "Cannot read properties of undefined")
                c == FetchParametersCatch(error, pArgs.awsRegion, pArgs.awsParamStorePath,
                                          pArgs.continueOnError, parameters)
            IN  /\ parameters' = parameters
                /\ pReqs' = pReqs
                /\ pPc' = c.pc
                /\ pOut' = c
    /\ UNCHANGED <<sVars, fVars>>

NoOut == [pc |-> "none"]

-----------------------------------------------------------------------------
(* Maps: a JavaScript object used as a string-keyed record *)

EmptyMap == <<>>

\* obj[key] = value
Put(m, k, v) == [x \in (DOMAIN m) \cup {k} |-> IF x = k THEN v ELSE m[x]]

\* obj[key]: the value, or undefined when the key is absent
Lookup(m, k) == IF k \in DOMAIN m THEN m[k] ELSE Undefined

\* The maps above do not keep the order of their keys. Where the code reads it
\* (Object.keys), the keys of an object are a list in property order: the order
\* in which they were added. (No key of the inputs is an integer index, which
\* JavaScript would list first.)

\* The keys after obj[key] = value: a new key goes last, a key the object
\* already has keeps its place
KeysAfterPut(keys, key) ==
    IF \E i \in DOMAIN keys : keys[i] = key THEN keys ELSE Append(keys, key)

\* The keys after a caller's step left the object as obj: the keys it kept, in
\* their order, then the key the step added, if any
KeysAfterChange(keys, obj) ==
    LET Kept(key) == key \in DOMAIN obj
        added == (DOMAIN obj) \ {keys[i] : i \in DOMAIN keys}
    IN  SelectSeq(keys, Kept) \o (IF added = {} THEN <<>> ELSE <<CHOOSE key \in added : TRUE>>)

\* The keys of { ...a, ...b }: those of a, then those of b that a does not have
RECURSIVE SpreadKeys(_, _)
SpreadKeys(aKeys, bKeys) ==
    IF bKeys = <<>> THEN aKeys
    ELSE SpreadKeys(KeysAfterPut(aKeys, Head(bKeys)), Tail(bKeys))

-----------------------------------------------------------------------------
(* Inputs of fetchSecrets *)

\* The longest secretNames list
MaxSecrets == 3

NameA == <<"d", "b">>
NameB == <<"k">>
SecretNameChoices == {NameA, NameB}

RECURSIVE SeqsUpTo(_, _)
SeqsUpTo(S, n) ==
    IF n = 0 THEN {<<>>}
    ELSE LET shorter == SeqsUpTo(S, n - 1)
         IN  shorter \cup {Append(l, x) : l \in {t \in shorter : Len(t) = n - 1}, x \in S}

\* secretNames: null/undefined, lists of valid names (the empty list, and the
\* lists that start with NameA, with and without repeated names), lists with an
\* invalid entry
SecretNamesArgs ==
    {[null |-> TRUE, list |-> <<>>]}
    \cup {[null |-> FALSE, list |-> l] :
            l \in {t \in SeqsUpTo(SecretNameChoices, MaxSecrets) : t = <<>> \/ t[1] = NameA}}
    \cup {[null |-> FALSE, list |-> l] :
            l \in {<<<<>>>>, <<NameA, <<" ">>>>, <<Undefined, NameA>>}}

\* Bytes of a binary secret
BytesHi == <<104, 105>>

\* The text of a JSON object with one pair: {"u":"v"}
JsonObjectText == <<"{", "\"", "u", "\"", ":", "\"", "v", "\"", "}">>

\* The answers of the store to one GetSecretValue request: a response with a
\* SecretString (a JSON object, or empty), with a SecretBinary, with neither, or
\* a rejection
SecretAnswers == {
    [kind |-> "response", SecretString |-> JsonObjectText],
    [kind |-> "response", SecretString |-> <<>>],
    [kind |-> "response", SecretString |-> Undefined, SecretBinary |-> BytesHi],
    [kind |-> "response", SecretString |-> Undefined],
    [kind |-> "error", error |-> MkError("ResourceNotFoundException", "", "not found")] }

\* The strings a JSON text of the inputs may hold as a key or as a value
JsonStrings == {<<"u">>, <<"v">>}

\* text is {"k":"v"}
IsPairObject(text, k, v) ==
    text = <<"{", "\"">> \o k \o <<"\"", ":", "\"">> \o v \o <<"\"", "}">>

\* parseSecretString, on texts that are a JSON object of one pair of plain
\* strings or that are not JSON at all: the object itself, else the text under
\* the secret's name
ParseSecretString(secretString, secretName) ==
    IF \E k, v \in JsonStrings : IsPairObject(secretString, k, v)
    THEN LET pair == CHOOSE q \in JsonStrings \X JsonStrings :
                         IsPairObject(secretString, q[1], q[2])
         IN  [key \in {pair[1]} |-> pair[2]]
    ELSE [key \in {secretName} |-> secretString]

HexDigits ==
    <<"0", "1", "2", "3", "4", "5", "6", "7", "8", "9", "A", "B", "C", "D", "E", "F">>

\* The digits of n in base 16
RECURSIVE HexString(_)
HexString(n) ==
    IF n < 16 THEN HexDigits[n + 1]
    ELSE HexString(n \div 16) \o HexDigits[(n % 16) + 1]

\* The name of a code point: U+ and at least four hexadecimal digits
CodePointName(cp) ==
    "U+" \o (IF cp < 16 THEN "000" ELSE IF cp < 256 THEN "00"
             ELSE IF cp < 4096 THEN "0" ELSE "") \o HexString(cp)

\* The printable ASCII characters, from code point 32 to code point 126 (the
\* grave accent, which a string here cannot hold, by the name of its code point)
AsciiPrintable ==
    <<" ", "!", "\"", "#", "$", "%", "&", "'", "(", ")", "*", "+", ",", "-", ".", "/",
      "0", "1", "2", "3", "4", "5", "6", "7", "8", "9", ":", ";", "<", "=", ">", "?",
      "@", "A", "B", "C", "D", "E", "F", "G", "H", "I", "J", "K", "L", "M", "N", "O",
      "P", "Q", "R", "S", "T", "U", "V", "W", "X", "Y", "Z", "[", "\\", "]", "^", "_",
      "U+0060", "a", "b", "c", "d", "e", "f", "g", "h", "i", "j", "k", "l", "m", "n", "o",
      "p", "q", "r", "s", "t", "u", "v", "w", "x", "y", "z", "{", "|", "}", "~">>

\* The character of a code point: itself when it is printable ASCII or has an
\* escape, else the name of the code point
CodePointChar(cp) ==
    IF cp >= 32 /\ cp <= 126 THEN AsciiPrintable[cp - 31]
    ELSE IF cp = 9 THEN "\t" ELSE IF cp = 10 THEN "\n"
    ELSE IF cp = 12 THEN "\f" ELSE IF cp = 13 THEN "\r"
    ELSE CodePointName(cp)

\* The UTF-8 decoder behind Buffer.toString('utf-8'), from a state of the
\* decoder: the continuation bytes still needed, the range the next of them must
\* lie in, and the code point collected so far. A sequence that is cut short or
\* broken by a byte out of range gives one U+FFFD, and the byte that broke it is
\* decoded again as the start of a sequence.
RECURSIVE Utf8DecodeFrom(_, _, _, _, _)
Utf8DecodeFrom(bytes, needed, lower, upper, cp) ==
    IF bytes = <<>> THEN (IF needed > 0 THEN <<CodePointChar(65533)>> ELSE <<>>)
    ELSE LET b == Head(bytes)
             rest == Tail(bytes)
         IN  IF needed = 0
             THEN IF b < 128
                  THEN <<CodePointChar(b)>> \o Utf8DecodeFrom(rest, 0, 128, 191, 0)
                  ELSE IF b >= 194 /\ b <= 223
                  THEN Utf8DecodeFrom(rest, 1, 128, 191, b - 192)
                  ELSE IF b >= 224 /\ b <= 239
                  THEN Utf8DecodeFrom(rest, 2, IF b = 224 THEN 160 ELSE 128,
                                      IF b = 237 THEN 159 ELSE 191, b - 224)
                  ELSE IF b >= 240 /\ b <= 244
                  THEN Utf8DecodeFrom(rest, 3, IF b = 240 THEN 144 ELSE 128,
                                      IF b = 244 THEN 143 ELSE 191, b - 240)
                  ELSE <<CodePointChar(65533)>> \o Utf8DecodeFrom(rest, 0, 128, 191, 0)
             ELSE IF b < lower \/ b > upper
             THEN <<CodePointChar(65533)>> \o Utf8DecodeFrom(bytes, 0, 128, 191, 0)
             ELSE IF needed = 1
             THEN <<CodePointChar(cp * 64 + (b - 128))>>
                  \o Utf8DecodeFrom(rest, 0, 128, 191, 0)
             ELSE Utf8DecodeFrom(rest, needed - 1, 128, 191, cp * 64 + (b - 128))

\* Buffer.from(bytes).toString('utf-8')
Utf8Decode(bytes) == Utf8DecodeFrom(bytes, 0, 128, 191, 0)

-----------------------------------------------------------------------------
(* SecretsManagerFetcherService.fetchSecrets *)

Pending == [status |-> "pending"]

\* !name || name.trim() === ''
InvalidName(name) == Falsy(name) \/ Trim(name) = <<>>

\* Variant of ValidateSecretsInput: the entries of secretNames are not validated
ValidateSecretsInputNoNameCheck(awsRegion, secretNames) ==
    IF Falsy(awsRegion) \/ Trim(awsRegion) = <<>> THEN "region"
    ELSE IF secretNames.null \/ Len(secretNames.list) = 0 THEN "none"
    ELSE "ok"

\* Variant of ValidateSecretsInput: an absent or empty secretNames is not
\* short-circuited
ValidateSecretsInputNoEmptyCheck(awsRegion, secretNames) ==
    IF Falsy(awsRegion) \/ Trim(awsRegion) = <<>> THEN "region"
    ELSE IF \E i \in 1..Len(secretNames.list) : InvalidName(secretNames.list[i]) THEN "names"
    ELSE "ok"

\* The validation of the inputs, in the order of the code: "region" (invalid
\* region), "none" (no names: nothing to fetch), "names" (an invalid name), "ok"
ValidateSecretsInput(awsRegion, secretNames) ==
    IF Falsy(awsRegion) \/ Trim(awsRegion) = <<>> THEN "region"
    ELSE IF secretNames.null \/ Len(secretNames.list) = 0 THEN "none"
    ELSE IF \E i \in 1..Len(secretNames.list) : InvalidName(secretNames.list[i]) THEN "names"
    ELSE "ok"

\* What a failed validation ends with
SecretsValidationOutcome(verdict, continueOnError) ==
    IF verdict = "none" \/ continueOnError
    THEN [pc |-> "returned", value |-> EmptyMap]
    ELSE [pc |-> "thrown",
          error |-> IF verdict = "region" THEN [text |-> "AWS region cannot be empty"]
                    ELSE [text |-> "Secret names cannot be empty"]]

\* Variant of IssuedRequests: only the first request is sent before the first await
\* (the requests are made one after the other)
IssuedRequestsFirstOnly(secretNames) ==
    [i \in 1..(IF Len(secretNames) = 0 THEN 0 ELSE 1) |-> [SecretId |-> secretNames[i]]]

\* secretNames.map(async ...): the requests sent before the first await of
\* fetchSecrets, one GetSecretValueCommand per entry, in list order
IssuedRequests(secretNames) == [i \in 1..Len(secretNames) |-> [SecretId |-> secretNames[i]]]

\* Variant of SecretPromiseResult: a response without a value gives the empty
\* string (secretValue = response.SecretString ?? decoded binary ?? '')
SecretPromiseResultEmptyForNone(answer, awsRegion, secretName) ==
    LET ok(value) ==
            [status |-> "fulfilled", secretName |-> secretName, secretValue |-> value,
             error |-> NoError]
    IN  IF answer.kind = "error"
        THEN [status |-> "fulfilled", secretName |-> secretName, secretValue |-> Undefined,
              error |-> BuildSecretsManagerErrorMessage(answer.error, awsRegion, secretName)]
        ELSE IF ~Falsy(answer.SecretString) THEN ok(answer.SecretString)
        ELSE IF "SecretBinary" \in DOMAIN answer THEN ok(Utf8Decode(answer.SecretBinary))
        ELSE ok(<<>>)

\* Variant of SecretPromiseResult: the text is taken whenever it is defined
\* (response.SecretString !== undefined), the empty text included
SecretPromiseResultDefinedString(answer, awsRegion, secretName) ==
    LET failed(error) ==
            [status |-> "fulfilled", secretName |-> secretName, secretValue |-> Undefined,
             error |-> BuildSecretsManagerErrorMessage(error, awsRegion, secretName)]
        ok(value) ==
            [status |-> "fulfilled", secretName |-> secretName, secretValue |-> value,
             error |-> NoError]
    IN  IF answer.kind = "error" THEN failed(answer.error)
        ELSE IF answer.SecretString # Undefined THEN ok(answer.SecretString)
        ELSE IF "SecretBinary" \in DOMAIN answer THEN ok(Utf8Decode(answer.SecretBinary))
        ELSE failed(MkError("Error", "", "Secret has no value"))

\* The value one mapped promise resolves with, from the answer to its request
SecretPromiseResult(answer, awsRegion, secretName) ==
    LET failed(error) ==
            [status |-> "fulfilled", secretName |-> secretName, secretValue |-> Undefined,
             error |-> BuildSecretsManagerErrorMessage(error, awsRegion, secretName)]
        ok(value) ==
            [status |-> "fulfilled", secretName |-> secretName, secretValue |-> value,
             error |-> NoError]
    IN  IF answer.kind = "error" THEN failed(answer.error)
        ELSE IF ~Falsy(answer.SecretString) THEN ok(answer.SecretString)
        ELSE IF "SecretBinary" \in DOMAIN answer THEN ok(Utf8Decode(answer.SecretBinary))
        ELSE failed(MkError("Error", "", "Secret has no value"))

\* Variant of AllSettled: the wait also ends at the first failed fetch (Promise.all)
AllSettledOrOneFailed(results) ==
    \/ \A i \in DOMAIN results : results[i] # Pending
    \/ \E i \in DOMAIN results : results[i] # Pending /\ results[i].error # NoError

\* Variant of AllSettled: the wait ends only when every fetch has delivered a
\* value (the promise of a failed fetch stays pending)
AllDeliveredAValue(results) ==
    \A i \in DOMAIN results : results[i] # Pending /\ results[i].error = NoError

\* await Promise.allSettled(secretPromises): resumes when no promise is pending
AllSettled(results) == \A i \in DOMAIN results : results[i] # Pending

\* Variant of SettlementRecords: the record of the promise that settled latest
\* comes first (each promise puts its record in front when it settles)
SettlementRecordsLatestFirst(results, settleOrder) ==
    [k \in 1..Len(settleOrder) |-> results[settleOrder[Len(settleOrder) - k + 1]]]

\* Variant of SettlementRecords: the records in the order in which the promises settled
SettlementRecordsInSettleOrder(results, settleOrder) ==
    [k \in 1..Len(settleOrder) |-> results[settleOrder[k]]]

\* The records Promise.allSettled resolves with: those of the promises, in the
\* order of the promises (the order of secretNames)
SettlementRecords(results, settleOrder) == results

\* The outer catch block
SecretsCatch(error, continueOnError, secrets) ==
    IF continueOnError
    THEN [pc |-> "returned", value |-> secrets]
    ELSE [pc |-> "thrown",
          error |-> [text |-> "Failed to fetch secrets from AWS Secrets Manager",
                     cause |-> error]]

\* Variant of ProcessResult: a failed record throws whatever continueOnError is
ProcessResultAlwaysThrows(result, secrets, continueOnError) ==
    IF result.status = "fulfilled" /\ result.error = NoError /\ result.secretValue # Undefined
    THEN [secrets |-> Put(secrets, result.secretName, result.secretValue),
          thrown |-> NoError]
    ELSE [secrets |-> secrets,
          thrown |-> IF result.status = "fulfilled" THEN result.error
                     ELSE [text |-> "Unexpected error fetching secret"]]

\* The body of `for (const result of results)` for one record: the map after it,
\* and the error it throws (NoError when it throws nothing)
ProcessResult(result, secrets, continueOnError) ==
    IF result.status = "fulfilled"
    THEN IF result.error = NoError /\ result.secretValue # Undefined
         THEN [secrets |-> Put(secrets, result.secretName, result.secretValue),
               thrown |-> NoError]
         ELSE [secrets |-> secrets,
               thrown |-> IF ~continueOnError THEN result.error ELSE NoError]
    ELSE [secrets |-> secrets,
          thrown |-> IF ~continueOnError
                     THEN [text |-> "Unexpected error fetching secret"] ELSE NoError]

\* The loop over the records from record i on, then the return; an error thrown
\* in the loop goes to the outer catch block
RECURSIVE ProcessResults(_, _, _, _)
ProcessResults(records, i, secrets, continueOnError) ==
    IF i > Len(records) THEN [pc |-> "returned", value |-> secrets]
    ELSE LET step == ProcessResult(records[i], secrets, continueOnError)
         IN  IF step.thrown # NoError
             THEN SecretsCatch(step.thrown, continueOnError, step.secrets)
             ELSE ProcessResults(records, i + 1, step.secrets, continueOnError)

\* The call, up to its first await
FetchSecretsCall(awsRegion, secretNames, continueOnError, clientError) ==
    /\ sPc = "idle" /\ pPc = "idle"
    /\ sArgs' = [awsRegion |-> awsRegion, secretNames |-> secretNames,
                 continueOnError |-> continueOnError,
                 clientFailed |-> clientError # NoError]
    /\ sSettled' = <<>>
    /\ LET verdict == ValidateSecretsInput(awsRegion, secretNames)
       IN  IF verdict # "ok"
           THEN LET o == SecretsValidationOutcome(verdict, continueOnError)
                IN  /\ sPc' = o.pc
                    /\ sOut' = o
                    /\ sReqs' = sReqs
                    /\ sAnswers' = <<>>
                    /\ sResults' = <<>>
           ELSE IF clientError # NoError
           THEN LET o == SecretsCatch([text |-> clientError.message], continueOnError, EmptyMap)
                IN  /\ sPc' = o.pc
                    /\ sOut' = o
                    /\ sReqs' = sReqs
                    /\ sAnswers' = <<>>
                    /\ sResults' = <<>>
           ELSE /\ sPc' = "awaiting"
                /\ sOut' = sOut
                /\ sReqs' = sReqs \o IssuedRequests(secretNames.list)
                /\ sAnswers' = [i \in 1..Len(secretNames.list) |-> Pending]
                /\ sResults' = [i \in 1..Len(secretNames.list) |-> Pending]
    /\ UNCHANGED <<pVars, fVars>>

\* The store answers request i and the mapped async function of entry i runs
\* to its end
SecretSettles(i, answer) ==
    /\ sPc = "awaiting"
    /\ i \in 1..Len(sReqs)
    /\ i \in DOMAIN sResults
    /\ sResults[i] = Pending
    /\ sAnswers' = [sAnswers EXCEPT ![i] = answer]
    /\ sResults' = [sResults EXCEPT ![i] =
                      SecretPromiseResult(answer, sArgs.awsRegion, sArgs.secretNames.list[i])]
    /\ sSettled' = Append(sSettled, i)
    /\ UNCHANGED <<sPc, sArgs, sReqs, sOut, pVars, fVars>>

\* fetchSecrets resumes after `await Promise.allSettled(...)` and runs to its end
FetchSecretsResume ==
    /\ sPc = "awaiting"
    /\ AllSettled(sResults)
    /\ LET o == ProcessResults(SettlementRecords(sResults, sSettled), 1, EmptyMap,
                               sArgs.continueOnError)
       IN  /\ sPc' = o.pc
           /\ sOut' = o
    /\ UNCHANGED <<sArgs, sReqs, sAnswers, sResults, sSettled, pVars, fVars>>

-----------------------------------------------------------------------------
(* String operations of the key derivation *)

\* String.prototype.split(sep) for a one-character separator: at least one segment
RECURSIVE SplitFrom(_, _, _)
SplitFrom(s, sep, current) ==
    IF s = <<>> THEN <<current>>
    ELSE IF Head(s) = sep THEN <<current>> \o SplitFrom(Tail(s), sep, <<>>)
    ELSE SplitFrom(Tail(s), sep, Append(current, Head(s)))

Split(s, sep) == SplitFrom(s, sep, <<>>)

\* Array.prototype.join(separator)
RECURSIVE Join(_, _)
Join(segments, separator) ==
    IF segments = <<>> THEN <<>>
    ELSE IF Len(segments) = 1 THEN segments[1]
    ELSE segments[1] \o separator \o Join(Tail(segments), separator)

\* Variant of FilterNonEmpty: split('/') without filter(Boolean)
FilterNothing(segments) == segments

\* Array.prototype.filter(Boolean) on strings: drops the empty ones
RECURSIVE FilterNonEmpty(_)
FilterNonEmpty(segments) ==
    IF segments = <<>> THEN <<>>
    ELSE IF Head(segments) = <<>> THEN FilterNonEmpty(Tail(segments))
    ELSE <<Head(segments)>> \o FilterNonEmpty(Tail(segments))

\* String.prototype.replace(pattern, '') with a string pattern: removes the first
\* occurrence of the pattern, wherever it is
RECURSIVE RemoveFirst(_, _)
RemoveFirst(s, pattern) ==
    IF StartsWith(s, pattern) THEN SubSeq(s, Len(pattern) + 1, Len(s))
    ELSE IF s = <<>> THEN <<>>
    ELSE <<Head(s)>> \o RemoveFirst(Tail(s), pattern)

RECURSIVE StripLeadingSlashes(_)
StripLeadingSlashes(s) ==
    IF s # <<>> /\ Head(s) = "/" THEN StripLeadingSlashes(Tail(s)) ELSE s

RECURSIVE StripTrailingSlashes(_)
StripTrailingSlashes(s) ==
    IF s # <<>> /\ s[Len(s)] = "/"
    THEN StripTrailingSlashes(SubSeq(s, 1, Len(s) - 1)) ELSE s

-----------------------------------------------------------------------------
(* SystemsManagerService: loading *)

\* Variant of ExtractParameterKey: in flat mode the last non-empty token, so that
\* a path ending with "/" gets the segment before the slash
ExtractParameterKeyLastNonEmpty(fullPath, cfg) ==
    IF ~cfg.preserveHierarchy
    THEN LET tokens == FilterNonEmpty(Split(fullPath, "/"))
         IN  IF tokens = <<>> THEN <<>> ELSE tokens[Len(tokens)]
    ELSE LET basePath == cfg.awsParamStorePath
             separator == IF Falsy(cfg.pathSeparator) THEN <<".">> ELSE cfg.pathSeparator
             relativePath ==
                 StripTrailingSlashes(StripLeadingSlashes(RemoveFirst(fullPath, basePath)))
         IN  Join(FilterNonEmpty(Split(relativePath, "/")), separator)

\* extractParameterKey
ExtractParameterKey(fullPath, cfg) ==
    IF ~cfg.preserveHierarchy
    THEN LET tokens == Split(fullPath, "/") IN tokens[Len(tokens)]
    ELSE LET basePath == cfg.awsParamStorePath
             separator == IF Falsy(cfg.pathSeparator) THEN <<".">> ELSE cfg.pathSeparator
             relativePath ==
                 StripTrailingSlashes(StripLeadingSlashes(RemoveFirst(fullPath, basePath)))
         IN  Join(FilterNonEmpty(Split(relativePath, "/")), separator)

\* Variant of LoadInto: the map after the first item only, as a reader would find
\* it were the loop suspended between two items
LoadIntoHeadOnly(map, awsParameters, cfg) ==
    IF awsParameters = <<>> THEN map
    ELSE LET parameter == Head(awsParameters)
         IN  IF ~Falsy(parameter.Name) /\ parameter.Value # Undefined
             THEN Put(map, ExtractParameterKey(parameter.Name, cfg), parameter.Value)
             ELSE map

\* Variant of LoadInto: items are tested with `parameter.Name && parameter.Value`
RECURSIVE LoadIntoTruthy(_, _, _)
LoadIntoTruthy(map, awsParameters, cfg) ==
    IF awsParameters = <<>> THEN map
    ELSE LET parameter == Head(awsParameters)
         IN  IF ~Falsy(parameter.Name) /\ ~Falsy(parameter.Value)
             THEN LoadIntoTruthy(Put(map, ExtractParameterKey(parameter.Name, cfg), parameter.Value),
                                 Tail(awsParameters), cfg)
             ELSE LoadIntoTruthy(map, Tail(awsParameters), cfg)

\* loadParameters: a fresh map, filled from the list in order; items without a
\* name or with an undefined value are skipped
RECURSIVE LoadInto(_, _, _)
LoadInto(map, awsParameters, cfg) ==
    IF awsParameters = <<>> THEN map
    ELSE LET parameter == Head(awsParameters)
         IN  IF ~Falsy(parameter.Name) /\ parameter.Value # Undefined
             THEN LoadInto(Put(map, ExtractParameterKey(parameter.Name, cfg), parameter.Value),
                           Tail(awsParameters), cfg)
             ELSE LoadInto(map, Tail(awsParameters), cfg)

LoadParameters(awsParameters, cfg) == LoadInto(EmptyMap, awsParameters, cfg)

\* The keys of the map LoadInto fills, in the order in which the forEach of
\* loadParameters adds them, from the keys the map had
RECURSIVE LoadedKeys(_, _, _)
LoadedKeys(keys, awsParameters, cfg) ==
    IF awsParameters = <<>> THEN keys
    ELSE LET parameter == Head(awsParameters)
         IN  IF ~Falsy(parameter.Name) /\ parameter.Value # Undefined
             THEN LoadedKeys(KeysAfterPut(keys, ExtractParameterKey(parameter.Name, cfg)),
                             Tail(awsParameters), cfg)
             ELSE LoadedKeys(keys, Tail(awsParameters), cfg)

\* Variant of ReloadParameters: an empty list keeps the map (the cache survives
\* a fetch that delivered nothing)
ReloadParametersUnlessEmpty(old, awsParameters, cfg) ==
    IF awsParameters = <<>> THEN old ELSE LoadInto(EmptyMap, awsParameters, cfg)

\* Variant of ReloadParameters: a map that is already filled is kept
\* (the load of a call that resolves later is dropped)
ReloadParametersIfEmpty(old, awsParameters, cfg) ==
    IF old = EmptyMap THEN LoadInto(EmptyMap, awsParameters, cfg) ELSE old

\* Variant of ReloadParameters: the forEach without the reset, filling the map in place
ReloadParametersMerging(old, awsParameters, cfg) == LoadInto(old, awsParameters, cfg)

\* loadParameters on a facade whose map is `old`: this._parameters = {} comes
\* first, so nothing of `old` is kept
ReloadParameters(old, awsParameters, cfg) == LoadParameters(awsParameters, cfg)

\* loadSecrets: a shallow copy of the fetched map
LoadSecrets(awsSecrets) == [k \in DOMAIN awsSecrets |-> awsSecrets[k]]

-----------------------------------------------------------------------------
(* SystemsManagerService: reading *)

\* Variant of NullishCoalesce: a || b (the empty string falls through as well)
LogicalOr(a, b) == IF Falsy(a) THEN b ELSE a

\* a ?? b
NullishCoalesce(a, b) == IF a = Undefined THEN b ELSE a

\* getParameter / getSecret
GetParameter(key) == Lookup(_parameters, key)
GetSecret(key) == Lookup(_secrets, key)

\* get: this._parameters[key] ?? this._secrets[key]
Get(key) == NullishCoalesce(Lookup(_parameters, key), Lookup(_secrets, key))

\* Variant of GetOrDefault: this.get(key) || defaultValue
GetOrDefaultByOr(key, defaultValue) == LogicalOr(Get(key), defaultValue)

\* getOrDefault
GetOrDefault(key, defaultValue) == NullishCoalesce(Get(key), defaultValue)

\* Variant of HasParameter: !!this._parameters[key]
HasParameterByValue(key) == ~Falsy(Lookup(_parameters, key))

\* hasParameter / hasSecret / has: the `in` operator
HasParameter(key) == key \in DOMAIN _parameters
HasSecret(key) == key \in DOMAIN _secrets
Has(key) == HasParameter(key) \/ HasSecret(key)

\* Variant of Spread: { ...b, ...a }, every key of a carries a's value
SpreadFirstWins(a, b) ==
    [k \in (DOMAIN a) \cup (DOMAIN b) |-> IF k \in DOMAIN a THEN a[k] ELSE b[k]]

\* { ...a, ...b }: every key of b carries b's value
Spread(a, b) ==
    [k \in (DOMAIN a) \cup (DOMAIN b) |-> IF k \in DOMAIN b THEN b[k] ELSE a[k]]

\* getAllParameters / getAllSecrets / getAll
GetAllParameters == Spread(EmptyMap, _parameters)
GetAllSecrets == Spread(EmptyMap, _secrets)
GetAll == Spread(_parameters, _secrets)

\* Variant of GetAllParametersObject: return this._parameters, the map itself
GetAllParametersInternal == [alias |-> "_parameters", obj |-> _parameters]

\* The object a getAll* call returns: its entries and the map of the facade it is
\* identical to ("none": the spread builds a new object on every call)
GetAllParametersObject == [alias |-> "none", obj |-> GetAllParameters]
GetAllSecretsObject == [alias |-> "none", obj |-> GetAllSecrets]
GetAllObject == [alias |-> "none", obj |-> GetAll]

\* delete obj[key]
Remove(map, key) == [k \in (DOMAIN map) \ {key} |-> map[k]]

\* getAllParameterKeys: Object.keys(this._parameters). loadParameters alone
\* writes the map: it starts from {} and adds the keys of its argument in order,
\* so the property order is that of the latest load
GetAllParameterKeys ==
    IF loaded = NoOut THEN <<>> ELSE LoadedKeys(<<>>, loaded.parameters, config)

\* getAllSecretKeys: Object.keys(this._secrets)
GetAllSecretKeys == secretKeys

\* Variant of GetAllKeys: Object.keys(this.getAll())
GetAllKeysOfGetAll == SpreadKeys(GetAllParameterKeys, GetAllSecretKeys)

\* getAllKeys: [...getAllParameterKeys(), ...getAllSecretKeys()]
GetAllKeys == GetAllParameterKeys \o GetAllSecretKeys

\* The keys and the value a caller writes into an object it was handed
CallerKeys == {<<"x">>, NameA, <<"n">>}
CallerValue == <<"z">>

\* A caller calls getAllParameters(), getAllSecrets() or getAll() and keeps the object
GetAllCalled(getter) ==
    /\ handed = NoOut
    /\ LET returned == CASE getter = "getAllParameters" -> GetAllParametersObject
                          [] getter = "getAllSecrets" -> GetAllSecretsObject
                          [] getter = "getAll" -> GetAllObject
       IN  handed' = [getter |-> getter, alias |-> returned.alias, obj |-> returned.obj,
                      touched |-> FALSE]
    /\ UNCHANGED <<config, _parameters, _secrets, secretKeys, tasks, loaded, before, providers, history, pVars, sVars>>

\* The caller changes the object it holds to `obj`; a map of the facade changes
\* with it exactly when it is that very object
CallerChanges(obj) ==
    /\ handed' = [handed EXCEPT !.obj = obj, !.touched = TRUE]
    /\ _parameters' = IF handed.alias = "_parameters" THEN obj ELSE _parameters
    /\ _secrets' = IF handed.alias = "_secrets" THEN obj ELSE _secrets
    /\ secretKeys' = IF handed.alias = "_secrets"
                     THEN KeysAfterChange(secretKeys, obj) ELSE secretKeys
    /\ UNCHANGED <<config, tasks, loaded, before, providers, history, pVars, sVars>>

\* returned[key] = value: adds or changes an entry
CallerWrites(key, value) ==
    /\ handed # NoOut /\ ~handed.touched
    /\ CallerChanges(Put(handed.obj, key, value))

\* delete returned[key]
CallerDeletes(key) ==
    /\ handed # NoOut /\ ~handed.touched
    /\ key \in DOMAIN handed.obj
    /\ CallerChanges(Remove(handed.obj, key))

-----------------------------------------------------------------------------
(* SystemsManagerService: construction and refresh *)

\* The number of refresh calls made on one facade
MaxTasks == 2

\* Parameters a fetch may deliver: two with the same last segment, one with an
\* empty value whose key is also a secret name, one without a value, two
\* without a name
ParamAX == MkParameter(<<"/", "a", "/", "x">>, <<"1">>)
ParamABX == MkParameter(<<"/", "a", "/", "b", "/", "x">>, <<"2">>)
ParamAK == MkParameter(<<"/", "a", "/", "k">>, <<>>)
ParamAU == MkParameter(<<"/", "a", "/", "u">>, Undefined)
\* Items without a name: Name absent, Name empty
ParamNoName == MkParameter(Undefined, <<"3">>)
ParamEmptyName == MkParameter(<<>>, <<"4">>)

\* The lists a parameter fetch may resolve with
ParameterLists == {
    <<>>, <<ParamAX>>, <<ParamAK>>, <<ParamAU>>,
    <<ParamAX, ParamABX>>, <<ParamABX, ParamAX>>,
    <<ParamAX, ParamAK>>, <<ParamAU, ParamAK>>,
    <<ParamAK, ParamNoName, ParamAU, ParamABX, ParamEmptyName>> }

ConfiguredNames == <<NameA, NameB>>

\* The maps the secrets provider may deliver at construction
InitialSecretMaps ==
    {[k \in D |-> <<"s", "1">>] : D \in SUBSET Range(ConfiguredNames)}

\* ModuleOptions: flat or hierarchical keys, both error policies, secrets disabled,
\* enabled without names (absent or empty list), enabled with names
Configs ==
    {[awsRegion |-> RegionA, awsParamStorePath |-> BasePath,
      awsParamStoreContinueOnError |-> coe, preserveHierarchy |-> h,
      pathSeparator |-> Undefined, useSecretsManager |-> sm.use,
      secretsManagerSecretNames |-> sm.names] :
        coe \in BOOLEAN, h \in BOOLEAN,
        sm \in {[use |-> FALSE, names |-> [null |-> FALSE, list |-> ConfiguredNames]],
                [use |-> TRUE, names |-> [null |-> TRUE, list |-> <<>>]],
                [use |-> TRUE, names |-> [null |-> FALSE, list |-> <<>>]],
                [use |-> TRUE, names |-> [null |-> FALSE, list |-> ConfiguredNames]]}}

\* Variant of SecretsConfigured: the flag alone, whatever the name list
SecretsConfiguredByFlag(cfg) == cfg.useSecretsManager

\* useSecretsManager && secretsManagerSecretNames && secretsManagerSecretNames.length > 0
SecretsConfigured(cfg) ==
    /\ cfg.useSecretsManager
    /\ ~cfg.secretsManagerSecretNames.null
    /\ Len(cfg.secretsManagerSecretNames.list) > 0

NoTask == [op |-> "none", pc |-> "idle", calledParameters |-> FALSE, calledSecrets |-> FALSE]

\* What parameterFetcher.fetchParameters resolves or rejects with, from what the
\* store did: a successful fetch delivers the list, a failed one the catch block's outcome
FetchParametersResult(store, cfg) ==
    IF store.kind = "ok"
    THEN [pc |-> "returned", value |-> store.list]
    ELSE FetchParametersCatch(store.error, cfg.awsRegion, cfg.awsParamStorePath,
                              cfg.awsParamStoreContinueOnError, <<>>)

StoreOutcomes ==
    {[kind |-> "ok", list |-> l] : l \in ParameterLists}
    \cup {[kind |-> "error", error |-> MkError("ThrottlingException", "", "slow down")]}

\* What secretsFetcher.fetchSecrets resolves or rejects with, from the answers of
\* the store to the requests of the configured names
FetchSecretsResult(answers, cfg) ==
    LET names == cfg.secretsManagerSecretNames.list
        records == [i \in 1..Len(names) |->
                       SecretPromiseResult(answers[i], cfg.awsRegion, names[i])]
    IN  ProcessResults(records, 1, EmptyMap, cfg.awsParamStoreContinueOnError)

\* The keys of the map a returned fetchSecrets call built, in the order in which
\* its result loop stored them: the loop stores the value of every record of a
\* succeeded fetch, in the order of the names
RECURSIVE StoredSecretKeys(_, _)
StoredSecretKeys(records, keys) ==
    IF records = <<>> THEN keys
    ELSE LET result == Head(records)
         IN  IF /\ result.status = "fulfilled" /\ result.error = NoError
                /\ result.secretValue # Undefined
             THEN StoredSecretKeys(Tail(records), KeysAfterPut(keys, result.secretName))
             ELSE StoredSecretKeys(Tail(records), keys)

\* The keys of the map of FetchSecretsResult, in property order
FetchedSecretKeys(answers, cfg) ==
    LET names == cfg.secretsManagerSecretNames.list
        records == [i \in 1..Len(names) |->
                       SecretPromiseResult(answers[i], cfg.awsRegion, names[i])]
    IN  StoredSecretKeys(records, <<>>)

\* The keys of a map the secrets provider delivered at construction: the
\* configured names it holds, in the order of the names
InitialSecretKeys(awsSecrets) ==
    LET Held(name) == name \in DOMAIN awsSecrets
    IN  SelectSeq(ConfiguredNames, Held)

\* Variant of ContinuesWithSecrets: refreshParameters() written as a call of refresh()
ContinuesWithSecretsAnyOp(op, cfg) == SecretsConfigured(cfg)

\* Variant of ContinuesWithSecrets: refresh() without its secrets block
ContinuesWithSecretsNever(op, cfg) == FALSE

\* After loadParameters: only refresh() goes on to the secret fetch, and only
\* when secrets are configured
ContinuesWithSecrets(op, cfg) == op = "refresh" /\ SecretsConfigured(cfg)

\* The store answered the request of a secret with a rejection or without a value
AnswerFails(answer) ==
    \/ answer.kind = "error"
    \/ answer.SecretString \in {Undefined, <<>>} /\ "SecretBinary" \notin DOMAIN answer

\* The record of the calls with one more event, kept when the calls are followed
Followed(event) ==
    IF history = NoOut THEN NoOut ELSE [events |-> Append(history.events, event)]

\* The maps as call t finds them, kept when the call is a followed one
Snapshot(t) ==
    IF t \in DOMAIN before
    THEN [before EXCEPT ![t] = [parameters |-> _parameters, secrets |-> _secrets]]
    ELSE before

\* Variant of RefreshStarted: both fetchers are called before the first await
\* (await Promise.all([fetchParameters(...), fetchSecrets(...)]))
RefreshStartedBothFetches ==
    [op |-> "refresh", pc |-> "awaitParameters",
     calledParameters |-> TRUE, calledSecrets |-> TRUE]

\* refresh() at its first await: fetchParameters has been called, fetchSecrets not
RefreshStarted ==
    [op |-> "refresh", pc |-> "awaitParameters",
     calledParameters |-> TRUE, calledSecrets |-> FALSE]

\* refresh(), up to its first await
Refresh(t) ==
    /\ tasks[t] = NoTask
    /\ tasks' = [tasks EXCEPT ![t] = RefreshStarted]
    /\ before' = Snapshot(t)
    /\ history' = Followed([task |-> t, event |-> "called"])
    /\ UNCHANGED <<config, _parameters, _secrets, secretKeys, loaded, handed, providers, pVars, sVars>>

\* refreshParameters(), up to its await
RefreshParameters(t) ==
    /\ tasks[t] = NoTask
    /\ tasks' = [tasks EXCEPT ![t] = [op |-> "refreshParameters", pc |-> "awaitParameters",
                                      calledParameters |-> TRUE, calledSecrets |-> FALSE]]
    /\ before' = Snapshot(t)
    /\ history' = Followed([task |-> t, event |-> "called"])
    /\ UNCHANGED <<config, _parameters, _secrets, secretKeys, loaded, handed, providers, pVars, sVars>>

\* refreshSecrets(), up to its throw or its await
RefreshSecrets(t) ==
    /\ tasks[t] = NoTask
    /\ tasks' = [tasks EXCEPT ![t] =
                   IF ~SecretsConfigured(config)
                   THEN [op |-> "refreshSecrets", pc |-> "failed",
                         calledParameters |-> FALSE, calledSecrets |-> FALSE,
                         error |-> [text |-> "Secrets Manager is not enabled or no secret names configured"]]
                   ELSE [op |-> "refreshSecrets", pc |-> "awaitSecrets",
                         calledParameters |-> FALSE, calledSecrets |-> TRUE]]
    /\ before' = Snapshot(t)
    /\ UNCHANGED <<config, _parameters, _secrets, secretKeys, loaded, handed, providers, history, pVars, sVars>>

\* The parameter fetch of task t settles: refresh()/refreshParameters() resumes,
\* up to the next await, the return or the rejection
ParametersFetched(t, store) ==
    /\ tasks[t].pc = "awaitParameters"
    /\ LET r == FetchParametersResult(store, config)
       IN  IF r.pc = "thrown"
           THEN /\ tasks' = [tasks EXCEPT ![t] = [@ EXCEPT !.pc = "failed"]]
                /\ UNCHANGED <<_parameters, loaded, history>>
           ELSE /\ _parameters' = ReloadParameters(_parameters, r.value, config)
                /\ loaded' = [loaded EXCEPT !.parameters = r.value]
                /\ history' = Followed([task |-> t, event |-> "loaded", list |-> r.value,
                                         failed |-> store.kind = "error"])
                /\ tasks' = [tasks EXCEPT ![t] =
                               IF ContinuesWithSecrets(tasks[t].op, config)
                               THEN [@ EXCEPT !.pc = "awaitSecrets", !.calledSecrets = TRUE]
                               ELSE [@ EXCEPT !.pc = "done"]]
    /\ UNCHANGED <<config, _secrets, secretKeys, before, handed, providers, pVars, sVars>>

\* The secret fetch of task t settles: refresh()/refreshSecrets() resumes and ends
SecretsFetched(t, answers) ==
    /\ tasks[t].pc = "awaitSecrets"
    /\ LET r == FetchSecretsResult(answers, config)
       IN  IF r.pc = "thrown"
           THEN /\ tasks' = [tasks EXCEPT ![t] = [@ EXCEPT !.pc = "failed"]]
                /\ UNCHANGED <<_secrets, secretKeys, loaded, history>>
           ELSE /\ _secrets' = LoadSecrets(r.value)
                /\ secretKeys' = FetchedSecretKeys(answers, config)
                /\ loaded' = [loaded EXCEPT !.secrets = r.value]
                /\ history' = Followed([task |-> t, event |-> "loadedSecrets",
                                         allFailed |-> \A i \in DOMAIN answers :
                                                          AnswerFails(answers[i])])
                /\ tasks' = [tasks EXCEPT ![t] = [@ EXCEPT !.pc = "done"]]
    /\ UNCHANGED <<config, _parameters, before, handed, providers, pVars, sVars>>

-----------------------------------------------------------------------------
(* Specifications *)

FetchersIdle ==
    /\ pPc = "idle" /\ pArgs = NoOut /\ parameters = <<>> /\ pReqs = <<>>
    /\ pResps = <<>> /\ pOut = NoOut
    /\ sPc = "idle" /\ sArgs = NoOut /\ sReqs = <<>> /\ sAnswers = <<>> /\ sResults = <<>>
    /\ sSettled = <<>> /\ sOut = NoOut

\* The two fetcher services, before any call; no facade is involved
Init ==
    /\ FetchersIdle
    /\ config = NoOut /\ _parameters = EmptyMap /\ _secrets = EmptyMap /\ secretKeys = <<>>
    /\ tasks = <<>> /\ loaded = NoOut /\ before = <<>> /\ handed = NoOut /\ providers = NoOut /\ history = NoOut

Next ==
    \/ \E r \in Regions, p \in Paths, c \in BOOLEAN, e \in {NoError, ClientInitError} :
          FetchParametersCall(r, p, c, e)
    \/ \E a \in SsmAnswers : FetchParametersResume(a)
    \/ \E r \in Regions, n \in SecretNamesArgs, c \in BOOLEAN,
          e \in {NoError, ClientInitError} : FetchSecretsCall(r, n, c, e)
    \/ \E i \in 1..(MaxSecrets + 1), a \in SecretAnswers : SecretSettles(i, a)
    \/ FetchSecretsResume

\* One call of one fetcher against a store that answers as it likes
Spec == Init /\ [][Next]_vars

\* One call of fetchParameters
NextPages ==
    \/ \E r \in Regions, p \in Paths, c \in BOOLEAN, e \in {NoError, ClientInitError} :
          FetchParametersCall(r, p, c, e)
    \/ \E a \in SsmAnswers : FetchParametersResume(a)

\* One call of fetchParameters against a store that answers every request and
\* that ends the paging within MaxPages pages
SpecPages ==
    Init /\ [][NextPages]_vars /\ WF_vars(\E a \in SsmAnswers : FetchParametersResume(a))

\* One call of fetchSecrets
NextSecrets ==
    \/ \E r \in Regions, n \in SecretNamesArgs, c \in BOOLEAN,
          e \in {NoError, ClientInitError} : FetchSecretsCall(r, n, c, e)
    \/ \E i \in 1..(MaxSecrets + 1), a \in SecretAnswers : SecretSettles(i, a)
    \/ FetchSecretsResume

\* One call of fetchSecrets against a store that answers each request when it
\* likes, or never: only the continuation after `await Promise.allSettled(...)`
\* is sure to run once it can
SpecSecrets == Init /\ [][NextSecrets]_vars /\ WF_vars(FetchSecretsResume)

\* The longest region or path handed to validateParameters
MaxInputLen == 3

\* Regions and paths of a direct call: absent, or any string of blanks, tabs,
\* carriage returns, slashes and letters
InputChars == {" ", "\t", "\r", "/", "a"}
ValidationInputs == {Undefined} \cup SeqsUpTo(InputChars, MaxInputLen)

\* A direct call of ParamStoreUtil.validateParameters: it returns, or throws
ValidateParametersCalled(awsRegion, awsParamStorePath) ==
    /\ pPc = "idle"
    /\ pArgs' = [awsRegion |-> awsRegion, awsParamStorePath |-> awsParamStorePath]
    /\ LET e == ValidateParameters(awsRegion, awsParamStorePath)
       IN  IF e = NoError
           THEN pPc' = "returned" /\ pOut' = [pc |-> "returned"]
           ELSE pPc' = "thrown" /\ pOut' = [pc |-> "thrown", error |-> e]
    /\ UNCHANGED <<parameters, pReqs, pResps, sVars, fVars>>

NextValidate ==
    /\ pPc = "idle"
    /\ \E region \in ValidationInputs, path \in ValidationInputs :
          ValidateParametersCalled(region, path)

\* One direct call of validateParameters
SpecValidate == Init /\ [][NextValidate]_vars

\* The facade as its constructor leaves it: both maps loaded from the lists the
\* providers resolved with
Constructed ==
    /\ config \in Configs
    /\ \E awsParameters \in ParameterLists, awsSecrets \in InitialSecretMaps :
          /\ _parameters = LoadParameters(awsParameters, config)
          /\ _secrets = LoadSecrets(awsSecrets)
          /\ secretKeys = InitialSecretKeys(awsSecrets)
          /\ loaded = [parameters |-> awsParameters, secrets |-> awsSecrets]

InitFacade ==
    /\ FetchersIdle
    /\ Constructed
    /\ tasks = [t \in 1..MaxTasks |-> NoTask]
    /\ before = <<>> /\ handed = NoOut /\ providers = NoOut /\ history = NoOut

NextFacade ==
    \/ \E t \in 1..MaxTasks : Refresh(t)
    \/ \E t \in 1..MaxTasks : RefreshParameters(t)
    \/ \E t \in 1..MaxTasks : RefreshSecrets(t)
    \/ \E t \in 1..MaxTasks, s \in StoreOutcomes : ParametersFetched(t, s)
    \/ \E t \in 1..MaxTasks, a \in [1..Len(ConfiguredNames) -> SecretAnswers] :
          SecretsFetched(t, a)

\* The facade and the refresh calls made on it
SpecFacade == InitFacade /\ [][NextFacade]_vars

\* The facade and one refresh call on it, followed from the maps it finds
InitOneCall ==
    /\ FetchersIdle
    /\ Constructed
    /\ tasks = <<NoTask>>
    /\ before = <<NoOut>> /\ handed = NoOut /\ providers = NoOut
    /\ history = [events |-> <<>>]

NextOneCall ==
    \/ Refresh(1)
    \/ RefreshParameters(1)
    \/ RefreshSecrets(1)
    \/ \E s \in StoreOutcomes : ParametersFetched(1, s)
    \/ \E a \in [1..Len(ConfiguredNames) -> SecretAnswers] : SecretsFetched(1, a)

SpecOneCall == InitOneCall /\ [][NextOneCall]_vars

\* Two refresh calls on a facade loaded with one parameter, followed in the
\* order of their calls and of their loads
InitOverlap ==
    /\ FetchersIdle
    /\ Constructed
    /\ loaded = [parameters |-> <<ParamAX>>, secrets |-> EmptyMap]
    /\ tasks = <<NoTask, NoTask>>
    /\ before = <<>> /\ handed = NoOut /\ providers = NoOut
    /\ history = [events |-> <<>>]

NextOverlap ==
    \/ \E t \in DOMAIN tasks : Refresh(t)
    \/ \E t \in DOMAIN tasks : RefreshParameters(t)
    \/ \E t \in DOMAIN tasks, s \in StoreOutcomes : ParametersFetched(t, s)
    \/ \E t \in DOMAIN tasks, a \in [1..Len(ConfiguredNames) -> SecretAnswers] :
          SecretsFetched(t, a)

SpecOverlap == InitOverlap /\ [][NextOverlap]_vars

\* The longest parameter name of a key derivation, in characters after the base
\* path and its slash
MaxNameLen == 4

\* Names of parameters under the base path: segments of "x" and ".", with
\* single, doubled, leading and trailing slashes
NameChars == {"/", "x", "."}
KeyNames == {BasePath \o <<"/">> \o rest : rest \in SeqsUpTo(NameChars, MaxNameLen)}

\* q is p with one of its slashes doubled or with a slash added at its end
SlashVariant(p, q) ==
    \/ q = p \o <<"/">>
    \/ \E k \in 1..Len(p) :
          p[k] = "/" /\ q = SubSeq(p, 1, k) \o <<"/">> \o SubSeq(p, k + 1, Len(p))

\* Two parameters with the same last segment "x": one under the segment "x.x",
\* one under the segments "x" and "x"
ParamDotted == MkParameter(BasePath \o <<"/", "x", ".", "x", "/", "x">>, <<"1">>)
ParamNested == MkParameter(BasePath \o <<"/", "x", "/", "x", "/", "x">>, <<"2">>)

\* p and q both end with a slash and the same non-empty last segment after it
SameSuffix(p, q) ==
    \E k \in 1..(Len(p) - 1), m \in 1..(Len(q) - 1) :
        /\ p[k] = "/" /\ q[m] = "/"
        /\ \A i \in (k + 1)..Len(p) : p[i] # "/"
        /\ SubSeq(p, k + 1, Len(p)) = SubSeq(q, m + 1, Len(q))

\* The lists a provider may hand to the constructor: one parameter, or two whose
\* names together stay within MaxNameLen, or two whose names differ by one
\* doubled or trailing slash, or two different names with the same last segment
KeyLists ==
    {<<MkParameter(name, <<"1">>)>> : name \in KeyNames}
    \cup {<<MkParameter(pair[1], <<"1">>), MkParameter(pair[2], <<"2">>)>> :
             pair \in {q \in KeyNames \X KeyNames :
                          \/ Len(q[1]) + Len(q[2]) <= 2 * (Len(BasePath) + 1) + MaxNameLen
                          \/ SlashVariant(q[1], q[2])
                          \/ q[1] # q[2] /\ SameSuffix(q[1], q[2])}}
    \cup {<<ParamDotted, ParamNested>>}

\* ModuleOptions of a key derivation: flat or hierarchical, the base path with
\* and without a final slash, pathSeparator absent, empty or "_"
KeyConfigs ==
    {[awsRegion |-> RegionA, awsParamStorePath |-> path,
      awsParamStoreContinueOnError |-> FALSE, preserveHierarchy |-> h,
      pathSeparator |-> sep, useSecretsManager |-> FALSE,
      secretsManagerSecretNames |-> [null |-> TRUE, list |-> <<>>]] :
        path \in {BasePath, BasePath \o <<"/">>}, h \in BOOLEAN,
        sep \in {Undefined, <<>>, <<"_">>}}

\* The fields of a facade whose constructor body has not run yet
InitKeys ==
    /\ FetchersIdle
    /\ config \in KeyConfigs
    /\ _parameters = EmptyMap /\ _secrets = EmptyMap /\ secretKeys = <<>>
    /\ tasks = <<>> /\ loaded = NoOut /\ before = <<>> /\ handed = NoOut /\ providers = NoOut /\ history = NoOut

\* constructor: loadParameters(awsParameters), loadSecrets(awsSecrets);
\* awsSecretKeys are the keys of awsSecrets in property order
Construct(awsParameters, awsSecrets, awsSecretKeys) ==
    /\ loaded = NoOut
    /\ _parameters' = ReloadParameters(_parameters, awsParameters, config)
    /\ _secrets' = LoadSecrets(awsSecrets)
    /\ secretKeys' = awsSecretKeys
    /\ loaded' = [parameters |-> awsParameters, secrets |-> awsSecrets]
    /\ UNCHANGED <<config, tasks, before, handed, providers, history, pVars, sVars>>

NextKeys == \E awsParameters \in KeyLists : Construct(awsParameters, EmptyMap, <<>>)

\* The construction of a facade from a list of parameters under the base path
SpecKeys == InitKeys /\ [][NextKeys]_vars

-----------------------------------------------------------------------------
(* SystemsManagerModule: the providers of register() and registerAsync() *)

\* What configService.get may return for a boolean setting: a boolean, a string
\* (an environment variable) or nothing
RawBoolean(b) == [type |-> "boolean", bool |-> b]
RawString(chars) == [type |-> "string", chars |-> chars]
RawUndefined == [type |-> "undefined"]

RawBooleans ==
    {RawBoolean(TRUE), RawBoolean(FALSE), RawUndefined,
     RawString(<<"t", "r", "u", "e">>), RawString(<<"f", "a", "l", "s", "e">>),
     RawString(<<"T", "R", "U", "E">>), RawString(<<"F", "a", "l", "s", "e">>)}

\* String.prototype.toLowerCase, on the letters in use
LowerChar(c) ==
    CASE c = "T" -> "t" [] c = "R" -> "r" [] c = "U" -> "u" [] c = "E" -> "e"
      [] c = "F" -> "f" [] OTHER -> c

ToLowerCase(chars) == [i \in 1..Len(chars) |-> LowerChar(chars[i])]

\* ParamStoreUtil.parseBoolean
ParseBoolean(value) ==
    IF value.type = "boolean" THEN value.bool
    ELSE IF value.type = "string" THEN ToLowerCase(value.chars) = <<"t", "r", "u", "e">>
    ELSE FALSE

\* Whether `value || false` is taken as true by `if (continueOnError)` and
\* whether `!value` is false: the truthiness of the value as it stands
RawTruthy(value) ==
    IF value.type = "boolean" THEN value.bool
    ELSE IF value.type = "string" THEN Len(value.chars) > 0
    ELSE FALSE

\* What the configuration source of registerAsync() holds
AsyncSources ==
    {[continueOnError |-> c, useSecretsManager |-> u, secretNames |-> n] :
        c \in RawBooleans, u \in RawBooleans,
        n \in {[null |-> TRUE, list |-> <<>>], [null |-> FALSE, list |-> ConfiguredNames]}}

\* The value of the PARAM_STORE_CONFIG provider of registerAsync()
AsyncConfig(source) ==
    [awsRegion |-> RegionA, awsParamStorePath |-> BasePath,
     awsParamStoreContinueOnError |-> ParseBoolean(source.continueOnError),
     preserveHierarchy |-> ParseBoolean(RawUndefined),
     pathSeparator |-> <<".">>,
     useSecretsManager |-> ParseBoolean(source.useSecretsManager),
     secretsManagerSecretNames |-> source.secretNames]

\* The continueOnError argument of the two initial fetches, as the fetchers take it
StartupContinueOnError ==
    IF providers.registration = "sync"
    THEN config.awsParamStoreContinueOnError
    ELSE RawTruthy(providers.source.continueOnError)

\* Whether the AWS_SECRETS_MANAGER_PROVIDER factory goes on to call fetchSecrets
StartupFetchesSecrets ==
    IF providers.registration = "sync"
    THEN SecretsConfigured(config)
    ELSE /\ RawTruthy(providers.source.useSecretsManager)
         /\ ~providers.source.secretNames.null
         /\ Len(providers.source.secretNames.list) > 0

\* The AWS_PARAM_STORE_PROVIDER factory settles
ParameterProviderSettles(store) ==
    /\ providers # NoOut /\ providers.parameters = Pending
    /\ LET flag == StartupContinueOnError
       IN  providers' = [providers EXCEPT !.parameters =
              [status |-> "settled", continueOnError |-> flag, store |-> store,
               result |-> FetchParametersResult(store,
                             [config EXCEPT !.awsParamStoreContinueOnError = flag])]]
    /\ UNCHANGED <<config, _parameters, _secrets, secretKeys, tasks, loaded, before, handed, history, pVars, sVars>>

\* The AWS_SECRETS_MANAGER_PROVIDER factory settles
SecretsProviderSettles(answers) ==
    /\ providers # NoOut /\ providers.secrets = Pending
    /\ LET flag == StartupContinueOnError
       IN  providers' = [providers EXCEPT !.secrets =
              IF ~StartupFetchesSecrets
              THEN [status |-> "settled", continueOnError |-> flag, fetched |-> FALSE,
                    result |-> [pc |-> "returned", value |-> EmptyMap], keys |-> <<>>]
              ELSE [status |-> "settled", continueOnError |-> flag, fetched |-> TRUE,
                    result |-> FetchSecretsResult(answers,
                                  [config EXCEPT !.awsParamStoreContinueOnError = flag]),
                    keys |-> FetchedSecretKeys(answers, config)]]
    /\ UNCHANGED <<config, _parameters, _secrets, secretKeys, tasks, loaded, before, handed, history, pVars, sVars>>

\* Variant of Instantiate: the facade is created as soon as the parameters are there
InstantiateEarly ==
    /\ providers.parameters # Pending
    /\ providers.parameters.result.pc = "returned"
    /\ Construct(providers.parameters.result.value,
                 IF providers.secrets # Pending /\ providers.secrets.result.pc = "returned"
                 THEN providers.secrets.result.value ELSE EmptyMap,
                 IF providers.secrets # Pending /\ providers.secrets.result.pc = "returned"
                 THEN providers.secrets.keys ELSE <<>>)

\* The container creates SystemsManagerService once both injected providers have
\* resolved; a rejected provider ends the bootstrap
Instantiate ==
    /\ providers.parameters # Pending /\ providers.secrets # Pending
    /\ providers.parameters.result.pc = "returned"
    /\ providers.secrets.result.pc = "returned"
    /\ Construct(providers.parameters.result.value, providers.secrets.result.value,
                 providers.secrets.keys)

\* The module is registered and nothing has been fetched yet
InitStartup ==
    /\ FetchersIdle
    /\ \/ /\ config \in Configs
          /\ providers = [registration |-> "sync", source |-> NoOut,
                          parameters |-> Pending, secrets |-> Pending]
       \/ \E source \in AsyncSources :
             /\ config = AsyncConfig(source)
             /\ providers = [registration |-> "async", source |-> source,
                             parameters |-> Pending, secrets |-> Pending]
    /\ _parameters = EmptyMap /\ _secrets = EmptyMap /\ secretKeys = <<>>
    /\ tasks = <<>> /\ loaded = NoOut /\ before = <<>> /\ handed = NoOut /\ history = NoOut

NextStartup ==
    \/ \E store \in StoreOutcomes : ParameterProviderSettles(store)
    \/ \E a \in [1..Len(ConfiguredNames) -> SecretAnswers] : SecretsProviderSettles(a)
    \/ Instantiate

\* The start of an application that registers the module
SpecStartup == InitStartup /\ [][NextStartup]_vars

\* The facade and a caller that changes an object a getAll* call returned
InitCopies ==
    /\ FetchersIdle
    /\ Constructed
    /\ tasks = <<>>
    /\ before = <<>> /\ handed = NoOut /\ providers = NoOut /\ history = NoOut

NextCopies ==
    \/ \E getter \in {"getAllParameters", "getAllSecrets", "getAll"} : GetAllCalled(getter)
    \/ \E key \in CallerKeys : CallerWrites(key, CallerValue)
    \/ \E key \in CallerKeys : CallerDeletes(key)

SpecCopies == InitCopies /\ [][NextCopies]_vars

-----------------------------------------------------------------------------
(* Properties of fetchParameters *)

PCompleted == pPc \in {"returned", "thrown"}

\* The items of one answered page
PageItems(answer) == IF "Parameters" \in DOMAIN answer THEN answer.Parameters ELSE <<>>

\* So far the store has answered with pages only, each carrying a continuation token
OnlyTokenPages == \A i \in 1..Len(pResps) : HasToken(pResps[i])

\* The store has answered with N pages, the first N-1 with a continuation token
\* and the last without one
AnsweredAllPages ==
    /\ pResps # <<>>
    /\ \A i \in 1..(Len(pResps) - 1) : HasToken(pResps[i])
    /\ pResps[Len(pResps)].kind = "page" /\ ~HasToken(pResps[Len(pResps)])

\* C1: when the store answers with N pages, the first N-1 with a continuation
\* token and the last with none, fetchParameters sends exactly N requests (one
\* more request after every page that carries a token, none after the last page)
\* and returns the concatenation of the items of the N pages in page order.
C1_PaginationConcatenatesAllPages ==
    /\ (pPc = "awaiting" /\ OnlyTokenPages) => Len(pReqs) = Len(pResps) + 1
    /\ AnsweredAllPages =>
          /\ pPc = "returned"
          /\ Len(pReqs) = Len(pResps)
          /\ pOut.value = Flatten([i \in 1..Len(pResps) |-> PageItems(pResps[i])])

\* Three pages were answered, two of them with items, and the call returned
C1_Witness ==
    /\ AnsweredAllPages /\ pPc = "returned"
    /\ Len(pResps) = 3 /\ Len(pReqs) = 3
    /\ PageItems(pResps[1]) = <<ParamY, ParamX>>
    /\ PageItems(pResps[3]) = <<ParamX>>
    /\ Len(pOut.value) >= 3

\* The call ended on a failure: of the validation, of the construction of the
\* client, or of a page request
FetchParametersFailed ==
    /\ PCompleted
    /\ pResps = <<>> \/ pResps[Len(pResps)].kind # "page"

\* C2: fetchParameters never returns a partial list: when the validation or any
\* page request fails, also after earlier pages succeeded, it returns the empty
\* list under continueOnError and throws otherwise.
C2_NoPartialList ==
    FetchParametersFailed =>
        IF pArgs.continueOnError
        THEN pPc = "returned" /\ pOut.value = <<>>
        ELSE pPc = "thrown" /\ "value" \notin DOMAIN pOut

\* A page request failed after two pages with items had been accumulated, under
\* continueOnError
C2_Witness ==
    /\ FetchParametersFailed /\ pArgs.continueOnError
    /\ Len(pResps) = 3 /\ pResps[3].kind = "error"
    /\ Len(parameters) >= 2
    /\ pPc = "returned" /\ pOut.value = <<>>

-----------------------------------------------------------------------------
(* Properties of fetchSecrets *)

SCompleted == sPc \in {"returned", "thrown"}

\* Empty or whitespace-only (or absent)
Blank(str) == str = Undefined \/ \A i \in 1..Len(str) : str[i] \in WhiteSpace

SecretNamesList == sArgs.secretNames.list

NoSecretNames == sArgs.secretNames.null \/ SecretNamesList = <<>>

SomeBlankName == \E i \in 1..Len(SecretNamesList) : Blank(SecretNamesList[i])

ValidSecretsInput == ~Blank(sArgs.awsRegion) /\ ~NoSecretNames /\ ~SomeBlankName

\* C3: validation precedes every store request: after a call of fetchParameters
\* with a blank region, a blank path or a path that does not start with '/', and
\* after a call of fetchSecrets with a blank region or a blank entry in
\* secretNames, no request has been sent, whatever continueOnError is.
C3_ValidationBeforeAnyRequest ==
    /\ (/\ pPc # "idle"
        /\ \/ Blank(pArgs.awsRegion)
           \/ Blank(pArgs.awsParamStorePath)
           \/ Head(pArgs.awsParamStorePath) # "/")
       => pReqs = <<>> /\ PCompleted
    /\ (sPc # "idle" /\ (Blank(sArgs.awsRegion) \/ SomeBlankName))
       => sReqs = <<>> /\ SCompleted

\* fetchSecrets was called with a valid region and a list that holds a valid
\* name and a blank one
C3_Witness ==
    /\ sPc # "idle" /\ ~Blank(sArgs.awsRegion)
    /\ SecretNamesList = <<NameA, <<" ">>>>
    /\ ~sArgs.continueOnError
    /\ sReqs = <<>>

\* The store answered request i with a value: a non-empty SecretString or a SecretBinary
FetchSucceeded(i) ==
    /\ i \in DOMAIN sAnswers
    /\ sAnswers[i] # Pending
    /\ sAnswers[i].kind = "response"
    /\ sAnswers[i].SecretString \notin {Undefined, <<>>} \/ "SecretBinary" \in DOMAIN sAnswers[i]

\* The value fetched by request i
FetchedValue(i) ==
    IF sAnswers[i].SecretString \notin {Undefined, <<>>} THEN sAnswers[i].SecretString
    ELSE Utf8Decode(sAnswers[i].SecretBinary)

SucceededIndexes == {i \in 1..Len(SecretNamesList) : FetchSucceeded(i)}
FailedIndexes == {i \in 1..Len(SecretNamesList) : ~FetchSucceeded(i)}

\* The last request of this name that succeeded
LastSuccess(name) ==
    CHOOSE i \in SucceededIndexes :
        /\ SecretNamesList[i] = name
        /\ \A j \in SucceededIndexes : SecretNamesList[j] = name => j <= i

\* C4: under continueOnError and with valid inputs, fetchSecrets does not fail,
\* and the map it returns holds exactly the requested names with a successful
\* fetch, each with the value fetched for it (of its last successful request when
\* the name is listed twice); a name whose fetches all failed is absent, and the
\* map is empty when every fetch failed.
C4_MapOfSuccessfulSecrets ==
    (SCompleted /\ sArgs.continueOnError /\ ValidSecretsInput) =>
        /\ sPc = "returned"
        /\ DOMAIN sOut.value = {SecretNamesList[i] : i \in SucceededIndexes}
        /\ \A name \in DOMAIN sOut.value : sOut.value[name] = FetchedValue(LastSuccess(name))

\* Three entries were requested; the fetch of entry 2 failed and the fetches of
\* entries 1 and 3 succeeded
C4_Witness ==
    /\ sPc = "returned" /\ sArgs.continueOnError
    /\ SecretNamesList = <<NameA, NameB, NameA>>
    /\ SucceededIndexes = {1, 3} /\ FailedIndexes = {2}
    /\ DOMAIN sOut.value = {NameA}

FirstFailedIndex == CHOOSE i \in FailedIndexes : \A j \in FailedIndexes : i <= j

\* C5: without continueOnError, when at least one fetch failed, fetchSecrets
\* throws (no map is returned, the fetched values are dropped) and the error it
\* throws wraps the error of the first failed entry in the order of secretNames,
\* whatever the order in which the requests settled.
C5_FirstFailureInListOrder ==
    (/\ SCompleted /\ ~sArgs.continueOnError /\ ValidSecretsInput
     /\ ~sArgs.clientFailed /\ FailedIndexes # {}) =>
        /\ sPc = "thrown"
        /\ "value" \notin DOMAIN sOut
        /\ sOut.error.cause = sResults[FirstFailedIndex].error
        /\ sOut.error.cause.base.secretName = SecretNamesList[FirstFailedIndex]

\* Entries 1 and 2 failed with different names, entry 3 succeeded, and the
\* request of entry 2 settled before that of entry 1
C5_Witness ==
    /\ sPc = "thrown" /\ ~sArgs.continueOnError
    /\ SecretNamesList = <<NameA, NameB, NameA>>
    /\ FailedIndexes = {1, 2}
    /\ sSettled = <<3, 2, 1>>

\* C6: fetchSecrets never completes while a request it sent is in flight: when it
\* has returned or thrown, every request it sent has settled, for both values of
\* continueOnError and also when a request that settled earlier had failed.
C6_CompletesOnlyWhenAllSettled ==
    SCompleted =>
        /\ Len(sSettled) = Len(sReqs)
        /\ \A i \in 1..Len(sReqs) : sAnswers[i] # Pending

\* Without continueOnError, the first request to settle failed, two more settled
\* after it, and the call then threw
C6_Witness ==
    /\ sPc = "thrown" /\ ~sArgs.continueOnError
    /\ Len(sReqs) = 3 /\ Len(sSettled) = 3
    /\ sSettled[1] \in FailedIndexes
    /\ sSettled[3] \in SucceededIndexes

\* C7: with valid inputs (and a client that could be built), the requests sent
\* are exactly one per entry of secretNames, in list order, and all of them have
\* been sent when fetchSecrets first suspends, before any response is processed.
C7_OneRequestPerNameAllSentFirst ==
    (sPc # "idle" /\ ValidSecretsInput /\ ~sArgs.clientFailed) =>
        /\ Len(sReqs) = Len(SecretNamesList)
        /\ \A i \in 1..Len(sReqs) : sReqs[i].SecretId = SecretNamesList[i]

\* Three requests are in flight and no response has been processed yet
C7_Witness ==
    /\ sPc = "awaiting" /\ sSettled = <<>>
    /\ Len(SecretNamesList) = 3 /\ Len(sReqs) = 3
    /\ \A i \in 1..3 : sAnswers[i] = Pending

\* C8 as stated: with an empty or absent secretNames, fetchSecrets returns an
\* empty map without error and without a request, whatever the region and
\* continueOnError.
C8_Original ==
    (sPc # "idle" /\ NoSecretNames) =>
        sPc = "returned" /\ sOut.value = EmptyMap /\ sReqs = <<>>

\* C8 amended: with an empty or absent secretNames, fetchSecrets sends no request,
\* whatever the region and continueOnError; it returns an empty map without error
\* unless the region is blank and continueOnError is false, in which case it
\* throws the region validation error (the region is validated first).
C8_NoNames ==
    (sPc # "idle" /\ NoSecretNames) =>
        /\ sReqs = <<>>
        /\ SCompleted
        /\ IF Blank(sArgs.awsRegion) /\ ~sArgs.continueOnError
           THEN sPc = "thrown" /\ sOut.error = [text |-> "AWS region cannot be empty"]
           ELSE sPc = "returned" /\ sOut.value = EmptyMap

\* An absent secretNames with a valid region and without continueOnError
C8_Witness ==
    /\ sPc = "returned" /\ sArgs.secretNames.null
    /\ ~Blank(sArgs.awsRegion) /\ ~sArgs.continueOnError
    /\ sOut.value = EmptyMap

-----------------------------------------------------------------------------
(* Properties of the facade's reads *)

\* The keys of both maps and one key of neither
ProbeKeys == (DOMAIN _parameters) \cup (DOMAIN _secrets) \cup {<<"n", "o">>}

\* C9: in every state of the facade, get(key) is the parameter map's value when
\* the key is in the parameter map, else the secret map's value when the key is
\* in the secret map, else undefined; on a key of both maps the parameter wins.
C9_GetPrefersParameters ==
    \A key \in ProbeKeys :
        Get(key) = IF key \in DOMAIN _parameters THEN _parameters[key]
                   ELSE IF key \in DOMAIN _secrets THEN _secrets[key]
                   ELSE Undefined

\* A key of both maps with different values, after a refresh loaded the parameter
C9_Witness ==
    /\ \E t \in DOMAIN tasks : tasks[t].pc = "done"
    /\ \E key \in (DOMAIN _parameters) \cap (DOMAIN _secrets) :
          _parameters[key] # _secrets[key] /\ Get(key) = _parameters[key]

\* C10: in every state of the facade, getAll() is the union of both maps in which
\* a key of both maps carries the secret's value, the opposite of get(key).
C10_GetAllPrefersSecrets ==
    /\ DOMAIN GetAll = (DOMAIN _parameters) \cup (DOMAIN _secrets)
    /\ \A key \in DOMAIN GetAll :
          GetAll[key] = IF key \in DOMAIN _secrets THEN _secrets[key] ELSE _parameters[key]
    /\ \A key \in (DOMAIN _parameters) \cap (DOMAIN _secrets) :
          GetAll[key] = _secrets[key] /\ Get(key) = _parameters[key]

\* A key of both maps with different values, after a refresh loaded the secret
C10_Witness ==
    /\ \E t \in DOMAIN tasks : tasks[t].pc = "done" /\ tasks[t].calledSecrets
    /\ \E key \in (DOMAIN _parameters) \cap (DOMAIN _secrets) :
          _parameters[key] # _secrets[key] /\ GetAll[key] # Get(key)

-----------------------------------------------------------------------------
(* Properties of the facade: copies and loads *)

\* A step in which the caller changes the object it was handed
CallerStep == handed # NoOut /\ handed' # handed

\* C11: whenever a caller adds, changes or removes an entry of an object that
\* getAll(), getAllParameters() or getAllSecrets() returned, the two maps of the
\* facade stay as they were, and so does the result of every get, has, getAll,
\* getAllParameters and getAllSecrets.
C11_CopyIsolation ==
    [][CallerStep =>
          /\ _parameters' = _parameters /\ _secrets' = _secrets
          /\ GetAll' = GetAll /\ GetAllParameters' = GetAllParameters
          /\ GetAllSecrets' = GetAllSecrets
          /\ \A key \in ProbeKeys \cup CallerKeys :
                Get(key)' = Get(key) /\ Has(key)' = Has(key)]_vars

\* A caller of getAllParameters() removed an entry from the returned object, one of
\* getAll() or getAllSecrets() changed an entry: the facade still has the old ones
C11_Witness ==
    /\ handed # NoOut /\ handed.touched
    /\ \/ /\ handed.getter = "getAllParameters"
          /\ \E key \in DOMAIN _parameters : key \notin DOMAIN handed.obj
       \/ /\ handed.getter \in {"getAll", "getAllSecrets"}
          /\ \E key \in DOMAIN _secrets :
                key \in DOMAIN handed.obj /\ handed.obj[key] = CallerValue
                /\ Get(key) # CallerValue

\* The items of a fetched list that loadParameters keeps
LoadedItems(list) ==
    {i \in 1..Len(list) : ~Falsy(list[i].Name) /\ list[i].Value # Undefined}

\* The keys derived from a fetched list
DerivedKeys(list, cfg) ==
    {ExtractParameterKey(list[i].Name, cfg) : i \in LoadedItems(list)}

\* The last item of the list that derives the key
LastDeriving(list, cfg, key) ==
    CHOOSE i \in LoadedItems(list) :
        /\ ExtractParameterKey(list[i].Name, cfg) = key
        /\ \A j \in LoadedItems(list) :
              ExtractParameterKey(list[j].Name, cfg) = key => j <= i

\* The key-derived image of a fetched list
KeyImage(list, cfg) ==
    [key \in DerivedKeys(list, cfg) |-> list[LastDeriving(list, cfg, key)].Value]

Succeeded(t) == tasks[t].pc = "done"

\* C12: once a followed refreshParameters() or refresh() has succeeded, the
\* parameter map is exactly the key-derived image of the list it fetched: every
\* key the map held when the call was made and that the new list does not derive
\* is gone, and an empty list leaves an empty map; once a followed
\* refreshSecrets() (or a refresh() that fetched secrets) has succeeded, the
\* secret map equals the fetched map.
C12_LoadIsTotalReplacement ==
    \A t \in DOMAIN before :
        Succeeded(t) =>
            /\ tasks[t].calledParameters =>
                  /\ _parameters = KeyImage(loaded.parameters, config)
                  /\ \A key \in DOMAIN before[t].parameters :
                        key \notin DerivedKeys(loaded.parameters, config)
                            => key \notin DOMAIN _parameters
                  /\ loaded.parameters = <<>> => _parameters = EmptyMap
            /\ tasks[t].calledSecrets => _secrets = loaded.secrets

\* A refresh succeeded on a facade that held a key the new list does not derive,
\* and the new list derives another one
C12_Witness ==
    \E t \in DOMAIN before :
        /\ Succeeded(t) /\ tasks[t].calledParameters
        /\ \E key \in DOMAIN before[t].parameters : key \notin DOMAIN _parameters
        /\ \E key \in DOMAIN _parameters : key \notin DOMAIN before[t].parameters

\* C13: in every state of the facade (before a refresh, while refresh calls are
\* suspended at the await of a fetch, and after them) the parameter map is the
\* complete key-derived image of the one list that was loaded last and the
\* secret map is the one map that was loaded last: no map is partially filled
\* or holds entries of two loads.
C13_MapsAreWholeLoads ==
    /\ _parameters = KeyImage(loaded.parameters, config)
    /\ _secrets = loaded.secrets

\* A refresh() that has loaded a list of several keys is suspended at the await
\* of its secret fetch while another refresh is suspended at its parameter fetch
C13_Witness ==
    \E t, u \in DOMAIN tasks :
        /\ tasks[t].op = "refresh" /\ tasks[t].pc = "awaitSecrets"
        /\ tasks[u].pc = "awaitParameters"
        /\ Cardinality(DOMAIN _parameters) > 1
        /\ Len(loaded.parameters) > 1

-----------------------------------------------------------------------------
(* Properties of the facade: one refresh call *)

\* Call t is a refresh() on a facade with secrets enabled and names configured
RefreshOfBoth(t) == tasks[t].op = "refresh" /\ SecretsConfigured(config)

\* Both maps are as call t found them
MapsAsBefore(t) ==
    _parameters = before[t].parameters /\ _secrets = before[t].secrets

\* C14: a refresh() with secrets enabled replaces the two maps as a pair: in
\* every state from the call on, either both maps are still as the call found
\* them or the call has succeeded and both are from its fetches; no state shows
\* the newly fetched parameter map next to the secret map of the previous load.
C14_PairReplacedAtomically ==
    \A t \in DOMAIN before :
        RefreshOfBoth(t) => (MapsAsBefore(t) \/ Succeeded(t))

\* C15: once a refresh() has failed, both maps are exactly as they were when the
\* call was made.
C15_FailedRefreshKeepsMaps ==
    \A t \in DOMAIN before :
        (tasks[t].op = "refresh" /\ tasks[t].pc = "failed") => MapsAsBefore(t)

-----------------------------------------------------------------------------
(* Properties of the facade: which fetcher a refresh call runs *)

\* Secrets are disabled, or the secret-name list is absent or empty
SecretsOff ==
    \/ ~config.useSecretsManager
    \/ config.secretsManagerSecretNames.null
    \/ config.secretsManagerSecretNames.list = <<>>

UsageError == [text |-> "Secrets Manager is not enabled or no secret names configured"]

\* Call t takes a step
Steps(t) == tasks'[t] # tasks[t]

\* C16: on a facade with secrets disabled, or with an absent or empty name list,
\* every refreshSecrets() call, under either error policy, has failed with the
\* usage error as soon as it is made, has invoked neither fetcher, and its step
\* leaves both maps as they were.
C16_RefreshSecretsUsageError ==
    [][\A t \in DOMAIN tasks :
          (SecretsOff /\ tasks'[t].op = "refreshSecrets") =>
              /\ tasks'[t].pc = "failed"
              /\ "error" \in DOMAIN tasks'[t] /\ tasks'[t].error = UsageError
              /\ ~tasks'[t].calledSecrets /\ ~tasks'[t].calledParameters
              /\ Steps(t) => (_parameters' = _parameters /\ _secrets' = _secrets)]_vars

\* refreshSecrets() has failed on a facade that enables secrets with an empty
\* name list and swallows fetch errors, and whose maps are not both empty
C16_Witness ==
    \E t \in DOMAIN tasks :
        /\ tasks[t].op = "refreshSecrets" /\ tasks[t].pc = "failed"
        /\ config.useSecretsManager /\ ~config.secretsManagerSecretNames.null
        /\ config.secretsManagerSecretNames.list = <<>>
        /\ config.awsParamStoreContinueOnError
        /\ _parameters # EmptyMap /\ _secrets # EmptyMap

\* C17 as stated: every refresh() has run the parameter fetcher; once it has
\* ended it has run the secret fetcher if and only if secrets are enabled with a
\* non-empty name list, and if it has not run it, it has succeeded; its steps
\* without a secret fetch leave the secret map unchanged.
C17_SecretFetchIffConfigured ==
    [][\A t \in DOMAIN tasks :
          tasks'[t].op = "refresh" =>
              /\ tasks'[t].calledParameters
              /\ tasks'[t].pc \in {"done", "failed"} =>
                    /\ tasks'[t].calledSecrets <=> ~SecretsOff
                    /\ ~tasks'[t].calledSecrets => tasks'[t].pc = "done"
              /\ (Steps(t) /\ ~tasks'[t].calledSecrets) => _secrets' = _secrets]_vars

\* C17, amended: every refresh() has run the parameter fetcher; it never runs the
\* secret fetcher when secrets are disabled or no name is configured; once it
\* has succeeded it has run the secret fetcher if and only if secrets are
\* enabled with a non-empty name list; it fails without having run the secret
\* fetcher only at its parameter fetch and only when errors are propagated; and
\* its steps without a secret fetch leave the secret map unchanged.
C17_SecretFetchIffConfiguredAndParametersFetched ==
    [][\A t \in DOMAIN tasks :
          tasks'[t].op = "refresh" =>
              /\ tasks'[t].calledParameters
              /\ tasks'[t].calledSecrets => ~SecretsOff
              /\ tasks'[t].pc = "done" => (tasks'[t].calledSecrets <=> ~SecretsOff)
              /\ (Steps(t) /\ tasks'[t].pc = "failed" /\ ~tasks'[t].calledSecrets) =>
                    /\ tasks[t].pc = "awaitParameters"
                    /\ ~config.awsParamStoreContinueOnError
              /\ (Steps(t) /\ ~tasks'[t].calledSecrets) => _secrets' = _secrets]_vars

\* A refresh() has succeeded without a secret fetch on a facade with secrets
\* disabled, which holds secrets from its construction
C17_Witness ==
    \E t \in DOMAIN tasks :
        /\ tasks[t].op = "refresh" /\ tasks[t].pc = "done"
        /\ ~config.useSecretsManager /\ ~tasks[t].calledSecrets
        /\ _secrets # EmptyMap

\* C18: a refreshParameters() call never invokes the secret fetcher and none of
\* its steps changes the secret map; a refreshSecrets() call never invokes the
\* parameter fetcher and none of its steps changes the parameter map; this
\* holds for calls that succeed and for calls that fail.
C18_ScopedRefreshTouchesOwnMap ==
    [][\A t \in DOMAIN tasks :
          /\ tasks'[t].op = "refreshParameters" =>
                /\ ~tasks'[t].calledSecrets
                /\ tasks'[t].pc \in {"awaitParameters", "done", "failed"}
                /\ Steps(t) => _secrets' = _secrets
          /\ tasks'[t].op = "refreshSecrets" =>
                /\ ~tasks'[t].calledParameters
                /\ tasks'[t].pc \in {"awaitSecrets", "done", "failed"}
                /\ Steps(t) => _parameters' = _parameters]_vars

\* On a facade with secrets configured, one refreshParameters() has succeeded and
\* replaced the parameter map while a refreshSecrets() has failed at its fetch
C18_Witness ==
    \E t, u \in DOMAIN tasks :
        /\ tasks[t].op = "refreshParameters" /\ tasks[t].pc = "done"
        /\ tasks[u].op = "refreshSecrets" /\ tasks[u].pc = "failed"
        /\ tasks[u].calledSecrets
        /\ _parameters # EmptyMap /\ _secrets # EmptyMap

-----------------------------------------------------------------------------
(* Properties of the key derivation *)

\* The part of a path after its final "/" (the whole path when it has none)
AfterFinalSlash(path) ==
    LET slashes == {i \in 1..Len(path) : path[i] = "/"}
        final == IF slashes = {} THEN 0
                 ELSE CHOOSE i \in slashes : \A j \in slashes : j <= i
    IN  SubSeq(path, final + 1, Len(path))

\* The last loaded item of the list of which keys[i] is the key
LastWithKey(list, keys, key) ==
    CHOOSE i \in LoadedItems(list) :
        /\ keys[i] = key
        /\ \A j \in LoadedItems(list) : keys[j] = key => j <= i

\* The map a list gives when keys[i] is the key of its item i, the last item of
\* a key winning
ImageUnder(list, keys) ==
    [key \in {keys[i] : i \in LoadedItems(list)} |->
        list[LastWithKey(list, keys, key)].Value]

\* C19: a facade with hierarchy preservation off, constructed from a list, holds
\* each loaded parameter under the part of its full path after the final "/"
\* (the empty key for a path that ends with "/"), and under a key that several
\* parameters of the list derive it holds the value of the last of them.
C19_FlatKeyIsLastSegment ==
    (loaded # NoOut /\ ~config.preserveHierarchy) =>
        _parameters = ImageUnder(loaded.parameters,
                                 [i \in DOMAIN loaded.parameters |->
                                     AfterFinalSlash(loaded.parameters[i].Name)])

\* Two parameters with different paths and the same last segment were loaded:
\* the map holds one key, with the value of the second
C19_Witness ==
    /\ loaded # NoOut /\ ~config.preserveHierarchy
    /\ Len(loaded.parameters) = 2
    /\ loaded.parameters[1].Name # loaded.parameters[2].Name
    /\ DOMAIN _parameters = {<<"x">>}
    /\ _parameters[<<"x">>] = loaded.parameters[2].Value

\* The segments of a path: its maximal runs of characters other than "/"
RECURSIVE Segments(_)
Segments(path) ==
    IF path = <<>> THEN <<>>
    ELSE IF Head(path) = "/" THEN Segments(Tail(path))
    ELSE LET n == CHOOSE k \in 1..Len(path) :
                      /\ \A i \in 1..k : path[i] # "/"
                      /\ k = Len(path) \/ path[k + 1] = "/"
         IN  <<SubSeq(path, 1, n)>> \o Segments(SubSeq(path, n + 1, Len(path)))

\* The configured separator, "." when none (or the empty string) is configured
SeparatorOf(cfg) ==
    IF cfg.pathSeparator = Undefined \/ cfg.pathSeparator = <<>>
    THEN <<".">> ELSE cfg.pathSeparator

\* The key of a path under the base path: the segments after the base path
\* prefix, joined with the separator
HierarchicalKey(path) ==
    LET rest == SubSeq(path, Len(config.awsParamStorePath) + 1, Len(path))
    IN  Join(Segments(rest), SeparatorOf(config))

\* C20: a facade with hierarchy preservation on, constructed from a list of
\* parameters under the base path, holds each of them under the key made of the
\* non-empty segments of its path after the base path prefix, joined with the
\* configured separator ("." when none is configured); so two paths of the list
\* that differ by a doubled or a trailing slash share one key.
C20_HierarchicalKey ==
    (loaded # NoOut /\ config.preserveHierarchy) =>
        /\ _parameters = ImageUnder(loaded.parameters,
                                    [i \in DOMAIN loaded.parameters |->
                                        HierarchicalKey(loaded.parameters[i].Name)])
        /\ \A i, j \in DOMAIN loaded.parameters :
              SlashVariant(loaded.parameters[i].Name, loaded.parameters[j].Name) =>
                  /\ Cardinality(DOMAIN _parameters) = 1
                  /\ ExtractParameterKey(loaded.parameters[i].Name, config)
                        = ExtractParameterKey(loaded.parameters[j].Name, config)

\* A path of two segments and the same path with its inner slash doubled were
\* loaded under a configured separator: the map holds the one key x_x
C20_Witness ==
    /\ loaded # NoOut /\ config.preserveHierarchy
    /\ config.pathSeparator = <<"_">>
    /\ Len(loaded.parameters) = 2
    /\ SlashVariant(loaded.parameters[1].Name, loaded.parameters[2].Name)
    /\ DOMAIN _parameters = {<<"x", "_", "x">>}

\* The segments of a name after the configured base path
NameSegments(name) ==
    Segments(SubSeq(name, Len(config.awsParamStorePath) + 1, Len(name)))

\* Two names under the base path with the same final segment and different
\* segments before it
SameFinalSegmentOnly(p, q) ==
    LET sp == NameSegments(p)
        sq == NameSegments(q)
    IN  /\ sp # <<>> /\ sq # <<>>
        /\ sp[Len(sp)] = sq[Len(sq)]
        /\ sp # sq

\* C21: a facade with hierarchy preservation on, constructed from a list of
\* parameters under the base path, gives any two of them that share their final
\* segment and differ in an earlier one two distinct keys; each is retrievable
\* with its own value, and a list of two such parameters gives two keys.
C21_SameSuffixDistinctKeys ==
    (loaded # NoOut /\ config.preserveHierarchy) =>
        \A i, j \in LoadedItems(loaded.parameters) :
            LET pi == loaded.parameters[i]
                pj == loaded.parameters[j]
            IN  SameFinalSegmentOnly(pi.Name, pj.Name) =>
                    /\ ExtractParameterKey(pi.Name, config)
                          # ExtractParameterKey(pj.Name, config)
                    /\ Get(ExtractParameterKey(pi.Name, config)) = pi.Value
                    /\ Get(ExtractParameterKey(pj.Name, config)) = pj.Value
                    /\ Len(loaded.parameters) = 2 =>
                          Cardinality(DOMAIN _parameters) = 2

-----------------------------------------------------------------------------
(* Properties of fetchSecrets: the payloads *)

\* The store answered request i with a SecretString that is a JSON object
JsonObjectFetched(i) ==
    /\ FetchSucceeded(i)
    /\ \E k, v \in JsonStrings : IsPairObject(sAnswers[i].SecretString, k, v)

\* C22: when fetchSecrets returns, every pair of a fetched payload that is a
\* JSON object is an entry of the returned map: the pair's key carries the
\* pair's value, so the payload is not merely kept as text under the secret's name.
C22_JsonPairsMerged ==
    sPc = "returned" =>
        \A i \in SucceededIndexes :
            JsonObjectFetched(i) =>
                LET pairs == ParseSecretString(sAnswers[i].SecretString, SecretNamesList[i])
                IN  \A key \in DOMAIN pairs :
                        key \in DOMAIN sOut.value /\ sOut.value[key] = pairs[key]

-----------------------------------------------------------------------------
(* Properties of the start-up *)

FacadeExists == loaded # NoOut

\* The provider's factory rejected: the failure of its fetch was propagated
ProviderRejected(p) == p # Pending /\ p.result.pc = "thrown"

\* C23: the facade never exists half-initialised: once a provider has rejected
\* (a failed initial fetch whose failure was propagated) no facade is ever
\* created; and whenever the facade exists both providers have resolved, the
\* parameter map is the key-derived image of the list the parameter provider
\* resolved with and the secret map equals the map the secrets provider resolved
\* with, which are empty when the parameter fetch failed and the failure was
\* swallowed, and when no secret fetch was made.
C23_NoHalfInitialisedFacade ==
    providers # NoOut =>
        /\ (ProviderRejected(providers.parameters) \/ ProviderRejected(providers.secrets))
              => ~FacadeExists
        /\ FacadeExists =>
              /\ providers.parameters # Pending /\ providers.secrets # Pending
              /\ loaded = [parameters |-> providers.parameters.result.value,
                           secrets |-> providers.secrets.result.value]
              /\ _parameters = KeyImage(providers.parameters.result.value, config)
              /\ _secrets = providers.secrets.result.value
              /\ providers.parameters.store.kind = "error" =>
                    providers.parameters.continueOnError /\ _parameters = EmptyMap
              /\ ~providers.secrets.fetched => _secrets = EmptyMap

\* A facade created after both fetches delivered: two parameters and a secret
C23_Witness ==
    /\ providers # NoOut /\ FacadeExists
    /\ providers.secrets.fetched
    /\ Cardinality(DOMAIN _parameters) = 2
    /\ DOMAIN _secrets = {NameA}

\* C27: under registerAsync(), the continueOnError flag the two initial fetches
\* are given, and whether the secrets provider fetches at all, are the
\* parseBoolean-normalised flags of the facade's configuration, whatever the
\* configuration source holds for the two boolean settings.
C27_StartupFlagsAreParsedFlags ==
    (providers # NoOut /\ providers.registration = "async") =>
        /\ providers.parameters # Pending =>
              providers.parameters.continueOnError = config.awsParamStoreContinueOnError
        /\ providers.secrets # Pending =>
              /\ providers.secrets.continueOnError = config.awsParamStoreContinueOnError
              /\ providers.secrets.fetched = SecretsConfigured(config)

\* C24: the page requests of one fetchParameters call are sequential and
\* token-chained: the first request carries no continuation token; every later
\* request was sent after the response to the request before it, which carried a
\* token, and carries exactly that token; and the requests outnumber the
\* responses by one while the call awaits and by none otherwise, so at most one
\* request is in flight.
C24_SequentialTokenChainedRequests ==
    /\ Len(pReqs) = Len(pResps) + (IF pPc = "awaiting" THEN 1 ELSE 0)
    /\ pReqs # <<>> => pReqs[1].NextToken = Undefined
    /\ \A i \in 2..Len(pReqs) :
          /\ pResps[i - 1].kind = "page"
          /\ pResps[i - 1].NextToken \notin {Undefined, <<>>}
          /\ pReqs[i].NextToken = pResps[i - 1].NextToken

\* The third request is in flight: it carries the token of the second page,
\* which differs from the token of the first
C24_Witness ==
    /\ pPc = "awaiting" /\ Len(pReqs) = 3 /\ Len(pResps) = 2
    /\ pResps[1].NextToken = TokenA /\ pResps[2].NextToken = TokenB
    /\ pReqs[3].NextToken = TokenB

\* C25: pagination has no page cap. Once a request has been sent, the call has
\* completed exactly when the latest response is a page without a continuation
\* token or a failure: as long as every response carried a token the call is
\* still awaiting the next page, however many pages there were. And when every
\* request is answered and the store ends the paging, the call completes.
C25_TerminatesIffStoreEndsPaging ==
    /\ [](pReqs # <<>> =>
            (PCompleted <=> (pResps # <<>> /\ ~HasToken(pResps[Len(pResps)]))))
    /\ (pPc = "awaiting" ~> PCompleted)

\* The call returned after the store had answered two pages with a token and
\* then a page without one
C25_Witness ==
    /\ pPc = "returned" /\ Len(pReqs) = 3 /\ Len(pResps) = 3
    /\ HasToken(pResps[1]) /\ HasToken(pResps[2]) /\ ~HasToken(pResps[3])
    /\ pResps[3].kind = "page"

\* The response to request i carries neither a text nor a binary value
RespondedWithoutValue(i) ==
    /\ sAnswers[i] # Pending /\ sAnswers[i].kind = "response"
    /\ sAnswers[i].SecretString \in {Undefined, <<>>}
    /\ "SecretBinary" \notin DOMAIN sAnswers[i]

\* C26: for every requested secret whose request was answered with a response:
\* a response with a text gives that text as the secret's value; a response with
\* a binary value only gives its UTF-8 decoding; a response with neither is a
\* failure of that secret with the error "has no value", and the call then ends
\* as it does after a store error: it throws without continueOnError, and under
\* continueOnError it returns a map in which that name is present only if
\* another request of the same name succeeded.
C26_ValueOfSecretResponse ==
    \A i \in DOMAIN sResults :
        (sResults[i] # Pending /\ sAnswers[i].kind = "response") =>
            IF sAnswers[i].SecretString \notin {Undefined, <<>>}
            THEN /\ sResults[i].error = NoError
                 /\ sResults[i].secretValue = sAnswers[i].SecretString
            ELSE IF "SecretBinary" \in DOMAIN sAnswers[i]
            THEN /\ sResults[i].error = NoError
                 /\ sResults[i].secretValue = Utf8Decode(sAnswers[i].SecretBinary)
            ELSE /\ sResults[i].error # NoError
                 /\ sResults[i].error.error = "Secret has no value"
                 /\ sResults[i].secretValue = Undefined
                 /\ SCompleted =>
                       IF sArgs.continueOnError
                       THEN /\ sPc = "returned"
                            /\ SecretNamesList[i] \in DOMAIN sOut.value =>
                                  \E j \in SucceededIndexes :
                                      SecretNamesList[j] = SecretNamesList[i]
                       ELSE sPc = "thrown" /\ "value" \notin DOMAIN sOut

\* Under continueOnError the call returned after a response with neither value
\* for the first name, and a text and then a binary value for the second name:
\* the map holds the second name only, with the decoded binary value
C26_Witness ==
    /\ sPc = "returned" /\ sArgs.continueOnError
    /\ SecretNamesList = <<NameA, NameB, NameB>> /\ Len(sAnswers) = 3
    /\ RespondedWithoutValue(1)
    /\ sAnswers[2].kind = "response" /\ sAnswers[2].SecretString = JsonObjectText
    /\ sAnswers[3].kind = "response" /\ "SecretBinary" \in DOMAIN sAnswers[3]
    /\ DOMAIN sOut.value = {NameB}
    /\ sOut.value[NameB] = <<"h", "i">>

-----------------------------------------------------------------------------
(* Properties of the facade: presence of keys *)

\* A default no map holds as a value
DefaultValue == <<"d">>

\* The value get(key) finds is the empty string: the parameter's, or the
\* secret's when there is no such parameter
StoredEmpty(key) ==
    \/ key \in DOMAIN _parameters /\ _parameters[key] = <<>>
    \/ key \notin DOMAIN _parameters /\ key \in DOMAIN _secrets /\ _secrets[key] = <<>>

\* C28: a key whose stored value is the empty string counts as present: has(key)
\* is true, get(key) is the empty string and getOrDefault(key, d) is the empty
\* string, not d; getOrDefault(key, d) is d exactly when the key is in neither map.
C28_EmptyValueIsPresent ==
    \A key \in ProbeKeys :
        /\ StoredEmpty(key) =>
              /\ Has(key)
              /\ Get(key) = <<>>
              /\ GetOrDefault(key, DefaultValue) = <<>>
        /\ GetOrDefault(key, DefaultValue) = DefaultValue <=>
              (key \notin DOMAIN _parameters /\ key \notin DOMAIN _secrets)

\* A refresh loaded a parameter with an empty value under a key that is also a
\* secret's, and getOrDefault gives the empty string
C28_Witness ==
    /\ \E t \in DOMAIN tasks : tasks[t].pc = "done" /\ tasks[t].calledParameters
    /\ <<"k">> \in DOMAIN _parameters /\ <<"k">> \in DOMAIN _secrets
    /\ _parameters[<<"k">>] = <<>> /\ _secrets[<<"k">>] # <<>>
    /\ GetOrDefault(<<"k">>, DefaultValue) = <<>>

\* C29: in every state of the facade the existence checks mirror the getters:
\* hasParameter(key) holds exactly when getParameter(key) returns a value,
\* hasSecret(key) exactly when getSecret(key) returns a value, and has(key),
\* which is hasParameter(key) or hasSecret(key), exactly when get(key) returns a
\* value.
C29_HasMirrorsGetters ==
    \A key \in ProbeKeys :
        /\ HasParameter(key) <=> GetParameter(key) # Undefined
        /\ HasSecret(key) <=> GetSecret(key) # Undefined
        /\ Has(key) <=> (HasParameter(key) \/ HasSecret(key))
        /\ Has(key) <=> Get(key) # Undefined

\* After a refresh of both maps: a key of the parameters only whose value is the
\* empty string, and a key of the secrets only
C29_Witness ==
    /\ \E t \in DOMAIN tasks : tasks[t].pc = "done" /\ tasks[t].calledSecrets
    /\ HasParameter(<<"k">>) /\ ~HasSecret(<<"k">>) /\ GetParameter(<<"k">>) = <<>>
    /\ HasSecret(NameA) /\ ~HasParameter(NameA)
    /\ ~Has(<<"n", "o">>)

\* C30: loading skips every fetched item that has no name or no value. After the
\* initial load and after every refresh that loaded parameters, the keys of the
\* parameter map are exactly those derived from the items of the loaded list
\* that have a name and a value; the key of an item without a value that no
\* other item derives is absent (has is false and get returns undefined, unless
\* a secret has that key); and an item whose value is the empty string is
\* loaded: its key is present with the empty string, unless a later item
\* derives the same key.
C30_LoadSkipsIncompleteItems ==
    loaded # NoOut =>
        LET list == loaded.parameters
            named(i) == list[i].Name \notin {Undefined, <<>>}
            valued(i) == list[i].Value # Undefined
            keyOf(i) == ExtractParameterKey(list[i].Name, config)
            kept == {i \in DOMAIN list : named(i) /\ valued(i)}
        IN  /\ DOMAIN _parameters = {keyOf(i) : i \in kept}
            /\ \A i \in DOMAIN list :
                  (named(i) /\ ~valued(i) /\ \A j \in kept : keyOf(j) # keyOf(i)) =>
                      /\ ~HasParameter(keyOf(i))
                      /\ GetParameter(keyOf(i)) = Undefined
                      /\ keyOf(i) \notin DOMAIN _secrets =>
                            ~Has(keyOf(i)) /\ Get(keyOf(i)) = Undefined
            /\ \A i \in kept :
                  (list[i].Value = <<>> /\ \A j \in kept : keyOf(j) = keyOf(i) => j <= i) =>
                      /\ Has(keyOf(i))
                      /\ GetParameter(keyOf(i)) = <<>>
                      /\ Get(keyOf(i)) = <<>>

\* A refresh loaded a list of five items: one with an empty value, one without a
\* value, two without a name and one complete; the map has two keys
C30_Witness ==
    /\ \E t \in DOMAIN tasks : tasks[t].pc = "done" /\ tasks[t].calledParameters
    /\ loaded.parameters = <<ParamAK, ParamNoName, ParamAU, ParamABX, ParamEmptyName>>
    /\ Cardinality(DOMAIN _parameters) = 2
    /\ GetParameter(<<"k">>) = <<>>
    /\ ~Has(<<"u">>)

-----------------------------------------------------------------------------
(* Properties of the validation and of the error messages *)

\* C31: validateParameters throws exactly when the region is absent, empty or
\* whitespace-only, or the path is absent, empty or whitespace-only, or the path
\* does not start with '/'; for every other region and path it returns without
\* an error.
C31_ValidationFailsExactlyOnBadInput ==
    pPc # "idle" =>
        /\ pPc \in {"returned", "thrown"}
        /\ pPc = "thrown" <=>
              \/ Blank(pArgs.awsRegion)
              \/ Blank(pArgs.awsParamStorePath)
              \/ pArgs.awsParamStorePath[1] # "/"
        /\ pPc = "thrown" => pOut.error.name = "Error"

\* A region with a blank before it and a path with a blank before its slash:
\* neither is blank, and the call threw because of the path's first character
C31_Witness ==
    /\ pPc = "thrown"
    /\ pArgs.awsRegion = <<" ", "a">>
    /\ pArgs.awsParamStorePath = <<" ", "/", "a">>
    /\ pOut.error.message = "Parameter Store path must start with '/'"

\* The message of the error names the region and a secret of the call
NamesRegionAndSecret(error) ==
    /\ "cause" \in DOMAIN error /\ "base" \in DOMAIN error.cause
    /\ error.cause.base.region = sArgs.awsRegion
    /\ \E i \in 1..Len(SecretNamesList) : error.cause.base.secretName = SecretNamesList[i]

\* C32: every failure that fetchParameters propagates carries a message with the
\* region and the path of the call, and every failure that fetchSecrets
\* propagates carries a message with the region and the name of a requested
\* secret, whatever failed: the validation, the construction of the client, or
\* a request.
C32_PropagatedFailureNamesItsSubject ==
    /\ pPc = "thrown" =>
          /\ "base" \in DOMAIN pOut.error
          /\ pOut.error.base.region = pArgs.awsRegion
          /\ pOut.error.base.path = pArgs.awsParamStorePath
    /\ sPc = "thrown" => NamesRegionAndSecret(sOut.error)

-----------------------------------------------------------------------------
(* Properties of overlapping refresh calls *)

\* The positions in the record of the calls at which task t was called / loaded
EventsOf(t, event) ==
    {i \in DOMAIN history.events :
        history.events[i].task = t /\ history.events[i].event = event}

\* The positions of all loads of parameters
Loads == {i \in DOMAIN history.events : history.events[i].event = "loaded"}

\* The list of the load that came last
LastLoadedList ==
    history.events[CHOOSE i \in Loads : \A j \in Loads : j <= i].list

\* C33: each refreshParameters()/refresh() call replaces the parameter map when
\* its own fetch resolves, whatever other calls are under way: at every moment
\* after a load the map is the key-derived image of the list of the fetch that
\* resolved last, also when the call of that fetch was made before the call of
\* a fetch that resolved earlier.
C33_LastResolvedFetchWins ==
    (history # NoOut /\ Loads # {}) =>
        _parameters = KeyImage(LastLoadedList, config)

\* Call 1 was made before call 2, the fetch of call 2 resolved before that of
\* call 1 with a different list, both calls have completed, and the map is the
\* image of the list of call 1
C33_Witness ==
    /\ history # NoOut
    /\ tasks[1].pc = "done" /\ tasks[2].pc = "done"
    /\ \E c1 \in EventsOf(1, "called"), c2 \in EventsOf(2, "called"),
          l1 \in EventsOf(1, "loaded"), l2 \in EventsOf(2, "loaded") :
          /\ c1 < c2 /\ c2 < l2 /\ l2 < l1
          /\ history.events[l1].list = <<ParamAX, ParamAK>>
          /\ history.events[l2].list = <<ParamABX, ParamAX>>
          /\ _parameters = KeyImage(history.events[l1].list, config)
          /\ _parameters # KeyImage(history.events[l2].list, config)

-----------------------------------------------------------------------------
(* Properties of a refresh whose fetch fails under continueOnError *)

\* The followed call loaded the result of a parameter fetch that had failed
LoadedFailedFetch ==
    \E i \in DOMAIN history.events :
        history.events[i].event = "loaded" /\ history.events[i].failed

\* The followed call loaded the result of a secret fetch whose requests all failed
LoadedAllFailedSecrets ==
    \E i \in DOMAIN history.events :
        history.events[i].event = "loadedSecrets" /\ history.events[i].allFailed

\* C34: on a facade configured with continueOnError, a refresh() or
\* refreshParameters() whose parameter fetch fails does not fail and does not
\* keep the cache: once the call has resumed the parameter map is empty, so
\* every key the map held when the call was made is absent; likewise the secret
\* map is empty once a refreshSecrets() or refresh() has resumed from a secret
\* fetch whose requests all failed.
C34_SwallowedFailureEmptiesMap ==
    (history # NoOut /\ config.awsParamStoreContinueOnError) =>
        \A t \in DOMAIN before :
            /\ tasks[t].calledParameters => tasks[t].pc # "failed"
            /\ LoadedFailedFetch =>
                  /\ _parameters = EmptyMap
                  /\ \A key \in DOMAIN before[t].parameters :
                        ~HasParameter(key) /\ GetParameter(key) = Undefined
            /\ LoadedAllFailedSecrets =>
                  /\ tasks[t].pc = "done"
                  /\ _secrets = EmptyMap
                  /\ \A key \in DOMAIN before[t].secrets : ~HasSecret(key)

\* Under continueOnError a refreshParameters() found two keys, its fetch failed,
\* and it has completed with an empty parameter map
C34_Witness ==
    /\ history # NoOut /\ config.awsParamStoreContinueOnError
    /\ tasks[1].op = "refreshParameters" /\ tasks[1].pc = "done"
    /\ Cardinality(DOMAIN before[1].parameters) = 2
    /\ LoadedFailedFetch
    /\ _parameters = EmptyMap

-----------------------------------------------------------------------------
(* Properties of the order of the two fetches of refresh() *)

\* C35: refresh() is ordered parameters-first. While it awaits the parameter
\* fetch no secret fetch has been started and both maps are as the call found
\* them; when the secret fetch has been started, the parameter fetch has
\* resolved and the parameter map is the image of its list; and when the
\* parameter fetch has propagated a failure, no secret fetch has been started
\* and both maps are as the call found them.
C35_RefreshFetchesParametersFirst ==
    \A t \in DOMAIN before :
        tasks[t].op = "refresh" =>
            /\ tasks[t].pc = "awaitParameters" =>
                  ~tasks[t].calledSecrets /\ MapsAsBefore(t)
            /\ tasks[t].calledSecrets =>
                  /\ EventsOf(t, "loaded") # {}
                  /\ _parameters = KeyImage(LastLoadedList, config)
            /\ (tasks[t].pc = "failed" /\ EventsOf(t, "loaded") = {}) =>
                  ~tasks[t].calledSecrets /\ MapsAsBefore(t)

\* A refresh() awaits its secret fetch: the parameter map has been replaced by
\* the image of the fetched list, the secret map is as the call found it
C35_Witness ==
    /\ tasks[1].op = "refresh" /\ tasks[1].pc = "awaitSecrets" /\ tasks[1].calledSecrets
    /\ EventsOf(1, "loaded") # {}
    /\ _parameters # before[1].parameters
    /\ _parameters = KeyImage(LastLoadedList, config)
    /\ _secrets = before[1].secrets /\ _secrets # EmptyMap

-----------------------------------------------------------------------------
(* Properties of fetchSecrets: the order in which the requests settle *)

\* The map that the answers to the requests determine, whatever the order in
\* which they arrived: every name with a successful request, with the value of
\* its last successful request in list order
MapOfAnswers ==
    [name \in {SecretNamesList[i] : i \in SucceededIndexes} |->
        FetchedValue(LastSuccess(name))]

\* C36: the map fetchSecrets returns is a function of the answers to its
\* requests alone: it is the same for every order in which the requests
\* settled; its keys are entries of secretNames; and for a name listed more
\* than once the value is that of its last successful occurrence in list order.
C36_MapIndependentOfSettleOrder ==
    (sPc = "returned" /\ sReqs # <<>>) =>
        /\ DOMAIN sOut.value \subseteq {SecretNamesList[i] : i \in 1..Len(SecretNamesList)}
        /\ sOut.value = MapOfAnswers

\* A name is listed first and last, both of its requests succeeded with
\* different values, the last request settled first, and the map holds the value
\* of the last occurrence
C36_Witness ==
    /\ sPc = "returned" /\ Len(sReqs) = 3
    /\ SecretNamesList = <<NameA, NameB, NameA>>
    /\ SucceededIndexes = {1, 2, 3}
    /\ sSettled = <<3, 1, 2>>
    /\ FetchedValue(1) = JsonObjectText /\ FetchedValue(3) = <<"h", "i">>
    /\ sOut.value[NameA] = <<"h", "i">>

-----------------------------------------------------------------------------
(* Properties of the facade: lists of keys *)

\* How often the key occurs in the list
Occurrences(keys, key) == Cardinality({i \in DOMAIN keys : keys[i] = key})

\* C37: in every state of the facade, getAllKeys() is the parameter keys
\* followed by the secret keys, each key of a map once: its length is the number
\* of parameter keys plus the number of secret keys, and a key of both maps is
\* listed twice, while getAll() holds it once.
C37_AllKeysListsBothMaps ==
    LET keys == GetAllKeys
        np == Cardinality(DOMAIN _parameters)
        ns == Cardinality(DOMAIN _secrets)
    IN  /\ Len(keys) = np + ns
        /\ {keys[i] : i \in 1..np} = DOMAIN _parameters
        /\ {keys[i] : i \in (np + 1)..(np + ns)} = DOMAIN _secrets
        /\ \A key \in (DOMAIN _parameters) \cap (DOMAIN _secrets) :
              Occurrences(keys, key) = 2
        /\ Cardinality(DOMAIN GetAll) =
              Len(keys) - Cardinality((DOMAIN _parameters) \cap (DOMAIN _secrets))

\* After a refresh: two parameter keys and two secret keys, one key in both
\* maps; getAllKeys() has four entries and getAll() three keys
C37_Witness ==
    /\ \E t \in DOMAIN tasks : tasks[t].pc = "done" /\ tasks[t].calledParameters
    /\ DOMAIN _parameters = {<<"x">>, <<"k">>}
    /\ DOMAIN _secrets = {NameA, <<"k">>}
    /\ GetAllKeys = <<<<"x">>, <<"k">>, NameA, <<"k">>>>
    /\ Occurrences(GetAllKeys, <<"k">>) = 2
    /\ Cardinality(DOMAIN GetAll) = 3

-----------------------------------------------------------------------------
(* Properties of fetchSecrets: the empty textual value *)

\* The request for the i-th name was answered with the empty text and no binary
\* value
RespondedWithEmptyText(i) ==
    /\ sAnswers[i] # Pending /\ sAnswers[i].kind = "response"
    /\ sAnswers[i].SecretString = <<>>
    /\ "SecretBinary" \notin DOMAIN sAnswers[i]

\* C38: a secret answered with the empty text and no binary value has no value:
\* its fetch is a failed one; a call without continueOnError that completes
\* after such an answer throws; a call under continueOnError returns, and the
\* map it returns holds the name only with the non-empty value of another
\* request for the same name, never with the empty string.
C38_EmptyTextIsNoValue ==
    \A i \in DOMAIN sAnswers :
        (RespondedWithEmptyText(i) /\ sResults[i] # Pending) =>
            /\ sResults[i].secretValue = Undefined
            /\ sResults[i].error # NoError
            /\ i \in FailedIndexes
            /\ (SCompleted /\ ~sArgs.continueOnError) => sPc = "thrown"
            /\ (SCompleted /\ sArgs.continueOnError) =>
                  /\ sPc = "returned"
                  /\ \A name \in DOMAIN sOut.value : sOut.value[name] # <<>>
                  /\ SecretNamesList[i] \in DOMAIN sOut.value =>
                        \E j \in SucceededIndexes \ {i} :
                            /\ SecretNamesList[j] = SecretNamesList[i]
                            /\ sOut.value[SecretNamesList[i]] = sResults[j].secretValue

\* Both outcomes of one list of two names, the first answered with the empty
\* text and the second with a text: without continueOnError the call threw;
\* the witness is the call under continueOnError, which returned the second
\* name only
C38_Witness ==
    /\ sPc = "returned" /\ sArgs.continueOnError
    /\ SecretNamesList = <<NameA, NameB>> /\ Len(sAnswers) = 2
    /\ RespondedWithEmptyText(1)
    /\ sAnswers[2].kind = "response" /\ sAnswers[2].SecretString = JsonObjectText
    /\ DOMAIN sOut.value = {NameB}
    /\ sOut.value[NameB] = JsonObjectText

-----------------------------------------------------------------------------
(* Properties of fetchSecrets: completion *)

\* The issued requests that have not settled
StillPending == {i \in DOMAIN sResults : sResults[i] = Pending}

\* C39: fetchSecrets has no timeout of its own. While an issued request has not
\* settled the call is still waiting, whatever the other requests were answered
\* with, so a request that never settles keeps the call from ever completing;
\* and a call that waits for ever has a request that never settles, that is,
\* the call completes (returns or throws) if every issued request eventually
\* settles.
C39_CompletesIffEveryRequestSettles ==
    /\ [](StillPending # {} => sPc = "awaiting")
    /\ (<>[](sPc = "awaiting")) => \E i \in 1..MaxSecrets : <>[](i \in StillPending)

\* Under continueOnError the three requests settled last to first, each with a
\* failure, and the call then returned the empty map
C39_Witness ==
    /\ sPc = "returned" /\ sArgs.continueOnError
    /\ Len(sReqs) = 3 /\ sSettled = <<3, 2, 1>>
    /\ FailedIndexes = {1, 2, 3}
    /\ StillPending = {}
    /\ sOut.value = EmptyMap

====
